---- MODULE Spec2Model ----
(***************************************************************************)
(* A model of the timestamp core of GeminiTranscription:                   *)
(*   - the timestamp parsers (timestampToSeconds in both service files,     *)
(*     parseTimestampToSeconds of the exporters),                          *)
(*   - the formatters (secondsToTimestamp, the tail of normalizeTimestamp), *)
(*   - the sequence normalizer enforceMonotonicity,                        *)
(*   - the JSON repairer tryRepairJson (both variants),                    *)
(*   - the caption grouping loop of exportAsVTT / exportAsTTML.            *)
(*                                                                         *)
(* Strings are sequences of one-character strings.  Seconds are fixed      *)
(* point: an integer number of ticks, TicksPerSecond ticks to the second   *)
(* (a tenth of a millisecond), so that values between two milliseconds     *)
(* exist and Math.round has something to round.  Decimals beyond the       *)
(* fourth are below the model's resolution and are dropped by ParseFloat.  *)
(***************************************************************************)
EXTENDS Integers, Sequences, FiniteSets, TLC

VARIABLES
    pc,              \* position of the operation being run
    ts,              \* parser: the token handed to the parser
    parser,          \* parser: which of the three parsers is applied
    seconds,         \* parser: the value returned (ticks)
    totalSeconds,    \* formatter: the value handed to the formatter (ticks)
    formatter,       \* formatter: "fixed" (HH:MM:SS.mmm), "folded" (MM:SS.mmm),
                     \* "normalize" or "fine" (normalizeTimestamp on raw seconds)
    formatted,       \* formatter: the string produced
    parsedBack,      \* formatter: the string parsed again (ticks)
    rendered,        \* formatter: what an exporter (or normalizeTimestamp
                     \* again) makes of the string produced
    rawSegments,     \* normalizer: the raw records handed to enforceMonotonicity
    idx,             \* normalizer / grouper: records consumed so far
    lastStartTime,   \* normalizer: tracker (ticks)
    lastEndTime,     \* normalizer: tracker (ticks)
    processed,       \* normalizer: the output list built so far
    granularity,     \* transcribeAudio: "line" or "word"
    jsonString,      \* repairer: the raw text (a token sequence)
    variant,         \* repairer: "service" (geminiService.ts) or "sample" (part_001)
    calls,           \* repairer: how often each strategy was entered
    result,          \* repairer: what was returned, and by which strategy
    segments,        \* grouper: the segment list handed to the exporter
    type,            \* grouper: "original" or "translated"
    exporter,        \* exporter: "vtt", "ttml", "srt" or "txt"
    currentGroup,    \* grouper: the open group
    groups,          \* grouper: the closed groups
    output,          \* exporter: the cues (or lines) written
    signal,          \* transcribeAudio: the abort signal ("none": not given)
    generation,      \* transcribeAudio: the promise of generateContent
    abortPromise,    \* transcribeAudio: the promise the abort listener rejects
    settled,         \* transcribeAudio: the promises settled, in order
    thrown,          \* transcribeAudio: the error the catch block received
    outcome          \* transcribeAudio: how the returned promise settled

parseVars == <<ts, parser, seconds>>
fmtVars   == <<totalSeconds, formatter, formatted, parsedBack, rendered>>
normVars  == <<rawSegments, lastStartTime, lastEndTime, processed,
               granularity>>
jsonVars  == <<jsonString, variant, calls, result>>
groupVars == <<segments, type, exporter, currentGroup, groups, output>>
abortVars == <<signal, generation, abortPromise, settled, thrown, outcome>>
vars == <<pc, idx, parseVars, fmtVars, normVars, jsonVars, groupVars,
          abortVars>>

----------------------------------------------------------------------------
(* Bounds of the model. *)

MaxTokenLen == 4
MaxHours == 1
MaxRaw == 3
MaxSegs == 3

----------------------------------------------------------------------------
(* Numbers. *)

TicksPerSecond == 10000
TicksPerMs == 10

Abs(x) == IF x < 0 THEN -x ELSE x

\* Math.round of a value given in ticks, to whole milliseconds: half goes up.
\* (\div is floor division, as Math.floor(x + 0.5) needs.)
RoundToMs(t) == (t + 5) \div TicksPerMs

----------------------------------------------------------------------------
(* Characters and strings. *)

Digits == {"0", "1", "2", "3", "4", "5", "6", "7", "8", "9"}

DigitVal(c) ==
    CASE c = "0" -> 0 [] c = "1" -> 1 [] c = "2" -> 2 [] c = "3" -> 3
      [] c = "4" -> 4 [] c = "5" -> 5 [] c = "6" -> 6 [] c = "7" -> 7
      [] c = "8" -> 8 [] c = "9" -> 9

DigitChar(d) ==
    CASE d = 0 -> "0" [] d = 1 -> "1" [] d = 2 -> "2" [] d = 3 -> "3"
      [] d = 4 -> "4" [] d = 5 -> "5" [] d = 6 -> "6" [] d = 7 -> "7"
      [] d = 8 -> "8" [] d = 9 -> "9"

\* The white space String.prototype.trim and parseFloat skip.
Whitespace == {" ", "\t"}

\* All strings over an alphabet up to a length.
StringsUpTo(alphabet, n) == UNION {[1..k -> alphabet] : k \in 0..n}

Contains(s, c) == \E i \in 1..Len(s) : s[i] = c

Drop(s, n) == SubSeq(s, n + 1, Len(s))

RECURSIVE TrimStart(_)
TrimStart(s) ==
    IF s # <<>> /\ Head(s) \in Whitespace THEN TrimStart(Tail(s)) ELSE s

RECURSIVE TrimEnd(_)
TrimEnd(s) ==
    IF s # <<>> /\ s[Len(s)] \in Whitespace
    THEN TrimEnd(SubSeq(s, 1, Len(s) - 1)) ELSE s

\* String.prototype.trim
Trim(s) == TrimEnd(TrimStart(s))

\* s.replace(/c/g, d) for single characters
ReplaceAll(s, c, d) == [i \in 1..Len(s) |-> IF s[i] = c THEN d ELSE s[i]]

\* s.replace(c, d) with a string pattern: the first occurrence only
ReplaceFirst(s, c, d) ==
    [i \in 1..Len(s) |->
        IF s[i] = c /\ \A j \in 1..(i - 1) : s[j] # c THEN d ELSE s[i]]

\* s.replace(/[^...]/g, '') : keep the characters of a class
Keep(s, class) == SelectSeq(s, LAMBDA c : c \in class)

\* s.replace(/[...]/g, '') : remove the characters of a class
Remove(s, class) == SelectSeq(s, LAMBDA c : c \notin class)

\* s.split(c): the pieces between the separators, at least one piece
RECURSIVE Split(_, _)
Split(s, c) ==
    IF ~Contains(s, c) THEN <<s>>
    ELSE LET i == CHOOSE k \in 1..Len(s) :
                      s[k] = c /\ \A j \in 1..(k - 1) : s[j] # c
         IN  <<SubSeq(s, 1, i - 1)>> \o Split(Drop(s, i), c)

\* The longest prefix of digits
RECURSIVE DigitPrefix(_)
DigitPrefix(s) ==
    IF s # <<>> /\ Head(s) \in Digits
    THEN <<Head(s)>> \o DigitPrefix(Tail(s)) ELSE <<>>

\* The integer a digit string denotes
RECURSIVE IntOf(_)
IntOf(ds) ==
    IF ds = <<>> THEN 0
    ELSE 10 * IntOf(SubSeq(ds, 1, Len(ds) - 1)) + DigitVal(ds[Len(ds)])

\* The ticks the digits after a decimal point denote (four decimals kept)
FracTicks(ds) ==
    LET d(i) == IF i <= Len(ds) THEN DigitVal(ds[i]) ELSE 0
    IN  1000 * d(1) + 100 * d(2) + 10 * d(3) + d(4)

NaN == [nan |-> TRUE, val |-> 0]

\* parseFloat: white space, an optional sign, then the longest prefix
\* digits [. digits] | . digits ; NaN when there is no digit at all.
\* (No exponent: the alphabets of this model have no "e".)
ParseFloat(s) ==
    LET s1    == TrimStart(s)
        neg   == s1 # <<>> /\ Head(s1) = "-"
        s2    == IF s1 # <<>> /\ Head(s1) \in {"-", "+"} THEN Tail(s1) ELSE s1
        whole == DigitPrefix(s2)
        s3    == Drop(s2, Len(whole))
        frac  == IF s3 # <<>> /\ Head(s3) = "." THEN DigitPrefix(Tail(s3)) ELSE <<>>
        mag   == IntOf(whole) * TicksPerSecond + FracTicks(frac)
    IN  IF whole = <<>> /\ frac = <<>> THEN NaN
        ELSE [nan |-> FALSE, val |-> IF neg THEN -mag ELSE mag]

\* parseFloat(x) || 0
OrZero(r) == IF r.nan THEN 0 ELSE r.val

\* clean.split(':').map(p => parseFloat(p) || 0)
Parts(clean) ==
    LET pieces == Split(clean, ":")
    IN  [i \in 1..Len(pieces) |-> OrZero(ParseFloat(pieces[i]))]

TimeChars == Digits \cup {":", "."}

----------------------------------------------------------------------------
(* The three parsers. *)

\* timestampToSeconds of the sample service (with the 4-part case)
timestampToSeconds(t) ==
    IF t = <<>> THEN 0
    ELSE LET clean == Keep(ReplaceAll(Trim(t), ",", "."), TimeChars)
             parts == Parts(clean)
         IN  IF ~Contains(clean, ":") THEN OrZero(ParseFloat(clean))
             ELSE IF Len(parts) = 4
                  THEN parts[1] * 3600 + parts[2] * 60 + parts[3]
                       + (parts[4] \div 1000)
             ELSE IF Len(parts) = 3
                  THEN parts[1] * 3600 + parts[2] * 60 + parts[3]
             ELSE IF Len(parts) = 2
                  THEN parts[1] * 60 + parts[2]
             ELSE OrZero(ParseFloat(clean))

\* Full-width digits and colon, written "fw0" .. "fw9", "fw:", "fw."
FullWidthDigit(c) ==
    CASE c = "fw0" -> "0" [] c = "fw1" -> "1" [] c = "fw2" -> "2"
      [] c = "fw3" -> "3" [] c = "fw4" -> "4" [] c = "fw5" -> "5"
      [] c = "fw6" -> "6" [] c = "fw7" -> "7" [] c = "fw8" -> "8"
      [] c = "fw9" -> "9" [] OTHER -> c

\* timestampToSeconds of services/geminiService.ts (width-normalizing,
\* no 4-part case)
timestampToSecondsService(t) ==
    LET str0  == Trim(t)
        str1  == [i \in 1..Len(str0) |-> FullWidthDigit(str0[i])]
        str2  == ReplaceAll(str1, "fw:", ":")
        clean == Keep(ReplaceAll(str2, ",", "."), TimeChars)
        parts == Parts(clean)
    IN  IF ~Contains(clean, ":") THEN OrZero(ParseFloat(clean))
        ELSE IF Len(parts) = 3
             THEN parts[1] * 3600 + parts[2] * 60 + parts[3]
        ELSE IF Len(parts) = 2
             THEN parts[1] * 60 + parts[2]
        ELSE OrZero(ParseFloat(clean))

ToLowerChar(c) ==
    CASE c = "M" -> "m" [] c = "S" -> "s" [] c = "X" -> "x" [] OTHER -> c

\* parseTimestampToSeconds of the exporters: nothing is stripped but m and s
parseTimestampToSeconds(t) ==
    LET str0  == Trim(t)
        lower == [i \in 1..Len(str0) |-> ToLowerChar(str0[i])]
        str   == ReplaceFirst(Remove(lower, {"m", "s"}), ",", ".")
        parts == Parts(str)
    IN  IF Contains(str, ":") /\ Len(parts) = 3
        THEN parts[1] * 3600 + parts[2] * 60 + parts[3]
        ELSE IF Contains(str, ":") /\ Len(parts) = 2
        THEN parts[1] * 60 + parts[2]
        ELSE OrZero(ParseFloat(str))

----------------------------------------------------------------------------
(* The formatters. *)

\* String(n) for an integer n >= 0
RECURSIVE NumToString(_)
NumToString(n) ==
    IF n < 10 THEN <<DigitChar(n)>>
    ELSE NumToString(n \div 10) \o <<DigitChar(n % 10)>>

\* s.padStart(width, '0')
RECURSIVE PadStart(_, _)
PadStart(s, width) ==
    IF Len(s) >= width THEN s ELSE PadStart(<<"0">> \o s, width)

\* secondsToTimestamp: HH:MM:SS.mmm from the rounded milliseconds
secondsToTimestamp(t) ==
    LET roundedMs == RoundToMs(t)
        h  == roundedMs \div 3600000
        m  == (roundedMs % 3600000) \div 60000
        s  == (roundedMs % 60000) \div 1000
        ms == roundedMs % 1000
    IN  PadStart(NumToString(h), 2) \o <<":">> \o PadStart(NumToString(m), 2)
        \o <<":">> \o PadStart(NumToString(s), 2) \o <<".">>
        \o PadStart(NumToString(ms), 3)

\* parseInt(p, 10) || 0 on a string of digits and dots
ParseIntOrZero(p) == IntOf(DigitPrefix(p))

\* The seconds field of normalizeTimestamp: parseInt of what precedes the
\* first dot, plus parseFloat("0." + what follows it) when that is not empty
SecondsField(p) ==
    LET secParts == Split(p, ".")
        s  == ParseIntOrZero(secParts[1])
        ms == IF Len(secParts) >= 2 /\ secParts[2] # <<>>
              THEN FracTicks(secParts[2]) ELSE 0
    IN  s * TicksPerSecond + ms

\* The value normalizeTimestamp computes from its cleaned input
NormalizeTotal(clean) ==
    LET parts == Split(clean, ":")
    IN  IF ~Contains(clean, ":") /\ clean # <<>>
        THEN ParseFloat(clean)
        ELSE IF Len(parts) = 3
             THEN [nan |-> FALSE,
                   val |-> ParseIntOrZero(parts[1]) * 3600 * TicksPerSecond
                           + ParseIntOrZero(parts[2]) * 60 * TicksPerSecond
                           + SecondsField(parts[3])]
        ELSE IF Len(parts) = 2
             THEN [nan |-> FALSE,
                   val |-> ParseIntOrZero(parts[1]) * 60 * TicksPerSecond
                           + SecondsField(parts[2])]
        ELSE [nan |-> FALSE, val |-> 0]

ZeroFolded == <<"0", "0", ":", "0", "0", ".", "0", "0", "0">>

\* Mutant of FormatFolded: the minutes wrapped at 60, the hours lost
FormatFoldedWrapped(t) ==
    LET m  == (t \div (60 * TicksPerSecond)) % 60
        s  == (t % (60 * TicksPerSecond)) \div TicksPerSecond
        ms == RoundToMs(t % TicksPerSecond)
    IN  PadStart(NumToString(m), 2) \o <<":">> \o PadStart(NumToString(s), 2)
        \o <<".">> \o PadStart(NumToString(ms), 3)

\* The tail of normalizeTimestamp: MM:SS.mmm, the hours folded into minutes
FormatFolded(t) ==
    LET m  == t \div (60 * TicksPerSecond)
        s  == (t % (60 * TicksPerSecond)) \div TicksPerSecond
        ms == RoundToMs(t % TicksPerSecond)
    IN  PadStart(NumToString(m), 2) \o <<":">> \o PadStart(NumToString(s), 2)
        \o <<".">> \o PadStart(NumToString(ms), 3)

\* normalizeTimestamp of services/geminiService.ts
normalizeTimestamp(t) ==
    IF t = <<>> THEN ZeroFolded
    ELSE LET clean == Keep(ReplaceAll(Trim(t), ",", "."), TimeChars)
             total == NormalizeTotal(clean)
         IN  IF total.nan \/ total.val < 0 THEN ZeroFolded
             ELSE FormatFolded(total.val)

\* A seconds value as the raw-seconds string a response may carry ("65.500")
RawSecondsString(t) ==
    NumToString(RoundToMs(t) \div 1000) \o <<".">>
    \o PadStart(NumToString(RoundToMs(t) % 1000), 3)

----------------------------------------------------------------------------
(* Idle values of the variables an operation does not use. *)

ParseIdle == ts = <<>> /\ parser = "none" /\ seconds = 0
FmtIdle   == totalSeconds = 0 /\ formatter = "none" /\ formatted = <<>>
             /\ parsedBack = 0 /\ rendered = <<>>
NormIdle  == rawSegments = <<>> /\ lastStartTime = -TicksPerSecond
             /\ lastEndTime = 0 /\ processed = <<>> /\ granularity = "none"
JsonIdle  == jsonString = <<>> /\ variant = "none"
             /\ calls = [direct |-> 0, truncation |-> 0, pattern |-> 0]
             /\ result = [via |-> "none", segK |-> "none", records |-> <<>>]
GroupIdle == segments = <<>> /\ type = "none" /\ exporter = "none"
             /\ currentGroup = <<>> /\ groups = <<>> /\ output = <<>>

NoError == [name |-> "none", message |-> "", by |-> "none"]
Unsent == [state |-> "unsent", text |-> "none", error |-> NoError]
NoOutcome == [kind |-> "pending", error |-> NoError]
AbortIdle == signal = "none" /\ generation = Unsent /\ abortPromise = "none"
             /\ settled = <<>> /\ thrown = NoError /\ outcome = NoOutcome

----------------------------------------------------------------------------
(* The parsers applied to one token. *)

ParseAlphabet == {"1", "5", ":", ".", ",", "-", "x", " "}
Parsers == {"sample", "service", "export"}

\* Longer tokens: full-width 01:30.5 (U+FF10.., U+FF1A, U+FF0E), and a
\* token of four parts whose last one is a number of milliseconds
FullWidthToken == <<"fw0", "fw1", "fw:", "fw3", "fw0", "fw.", "fw5">>
FourPartToken == <<"1", ":", "1", ":", "1", ":", "5", "1", "5">>
LongTokens == {FullWidthToken, FourPartToken}

InitParse ==
    /\ pc = "call"
    /\ ts \in StringsUpTo(ParseAlphabet, MaxTokenLen) \cup LongTokens
    /\ parser \in Parsers
    /\ seconds = 0
    /\ idx = 0
    /\ FmtIdle /\ NormIdle /\ JsonIdle /\ GroupIdle /\ AbortIdle

CallTimestampToSeconds ==
    /\ pc = "call" /\ parser = "sample"
    /\ seconds' = timestampToSeconds(ts)
    /\ pc' = "returned"
    /\ UNCHANGED <<abortVars, ts, parser, idx, fmtVars, normVars, jsonVars, groupVars>>

CallTimestampToSecondsService ==
    /\ pc = "call" /\ parser = "service"
    /\ seconds' = timestampToSecondsService(ts)
    /\ pc' = "returned"
    /\ UNCHANGED <<abortVars, ts, parser, idx, fmtVars, normVars, jsonVars, groupVars>>

CallParseTimestampToSeconds ==
    /\ pc = "call" /\ parser = "export"
    /\ seconds' = parseTimestampToSeconds(ts)
    /\ pc' = "returned"
    /\ UNCHANGED <<abortVars, ts, parser, idx, fmtVars, normVars, jsonVars, groupVars>>

NextParse ==
    \/ CallTimestampToSeconds
    \/ CallTimestampToSecondsService
    \/ CallParseTimestampToSeconds

SpecParse == InitParse /\ [][NextParse]_vars

----------------------------------------------------------------------------
(* A seconds value formatted and parsed again. *)

\* formatSecondsToLRC: [MM:SS.CC], ms = Math.round((s % 1) * 100)
formatSecondsToLRC(t) ==
    LET m    == t \div (60 * TicksPerSecond)
        s    == t % (60 * TicksPerSecond)
        sInt == s \div TicksPerSecond
        ms   == ((s % TicksPerSecond) + 50) \div 100
    IN  <<"[">> \o PadStart(NumToString(m), 2) \o <<":">>
        \o PadStart(NumToString(sInt), 2) \o <<".">>
        \o PadStart(NumToString(ms), 2) \o <<"]">>

\* (clean.match(/:/g) || []).length
CountOf(s, c) == Len(SelectSeq(s, LAMBDA x : x = c))

\* s.padEnd(width, '0')
RECURSIVE PadEnd(_, _)
PadEnd(s, width) ==
    IF Len(s) >= width THEN s ELSE PadEnd(s \o <<"0">>, width)

\* formatTimestampForTTML: ".000" appended when there is no fraction, "00:"
\* put before MM:SS.mmm, raw seconds formatted as HH:MM:SS.mmm, and the
\* fraction padded or cut to 3 digits
formatTimestampForTTML(t) ==
    LET clean0 == Trim(t)
        clean1 == IF ~Contains(clean0, ".")
                  THEN clean0 \o <<".", "0", "0", "0">> ELSE clean0
        colonCount == CountOf(clean1, ":")
        sec    == ParseFloat(clean1)
        clean2 == IF colonCount = 1 THEN <<"0", "0", ":">> \o clean1 ELSE clean1
        pieces == Split(clean2, ".")
    IN  IF colonCount = 0 /\ ~sec.nan
        THEN LET h  == sec.val \div (3600 * TicksPerSecond)
                 m  == (sec.val % (3600 * TicksPerSecond))
                           \div (60 * TicksPerSecond)
                 sc == (sec.val % (60 * TicksPerSecond)) \div TicksPerSecond
                 ms == RoundToMs(sec.val % TicksPerSecond)
             IN  PadStart(NumToString(h), 2) \o <<":">>
                 \o PadStart(NumToString(m), 2) \o <<":">>
                 \o PadStart(NumToString(sc), 2) \o <<".">>
                 \o PadStart(NumToString(ms), 3)
        ELSE pieces[1] \o <<".">> \o SubSeq(PadEnd(pieces[2], 3), 1, 3)

\* An hour count that makes the minutes field of the folded form four
\* digits wide (the checker's integers end near 59 hours of ticks)
LongHours == 25

\* Seconds values that are whole milliseconds, at the edges of every field
MsValues ==
    { ((h * 3600 + m * 60 + s) * 1000 + ms) * TicksPerMs :
        h \in (0..MaxHours) \cup {LongHours}, m \in {0, 1, 59}, s \in {0, 59},
        ms \in {0, 1, 50, 999} }

\* Seconds values with a fourth decimal: 59.9996 and 3599.9996, whose
\* fraction rounds to 1000 ms, and values around them
SubMsValues == {4, 9994, 9996, 599994, 599996, 35999996}

\* A seconds value as a raw-seconds string of four decimals ("59.9996")
FineSecondsString(t) ==
    NumToString(t \div TicksPerSecond) \o <<".">>
    \o PadStart(NumToString(t % TicksPerSecond), 4)

Formatters == {"fixed", "folded", "normalize"}

InitFmt ==
    /\ pc = "format"
    /\ \/ totalSeconds \in MsValues /\ formatter \in Formatters
       \/ totalSeconds \in SubMsValues /\ formatter = "fine"
    /\ formatted = <<>>
    /\ parsedBack = 0
    /\ rendered = <<>>
    /\ idx = 0
    /\ ParseIdle /\ NormIdle /\ JsonIdle /\ GroupIdle /\ AbortIdle

\* secondsToTimestamp(totalSeconds)
FormatFixed ==
    /\ pc = "format" /\ formatter = "fixed"
    /\ formatted' = secondsToTimestamp(totalSeconds)
    /\ pc' = "formatted"
    /\ UNCHANGED <<abortVars, totalSeconds, formatter, parsedBack, rendered, idx,
                   parseVars, normVars, jsonVars, groupVars>>

\* The formatting lines of normalizeTimestamp on totalSeconds
FormatFoldedTail ==
    /\ pc = "format" /\ formatter = "folded"
    /\ formatted' = FormatFolded(totalSeconds)
    /\ pc' = "formatted"
    /\ UNCHANGED <<abortVars, totalSeconds, formatter, parsedBack, rendered, idx,
                   parseVars, normVars, jsonVars, groupVars>>

\* normalizeTimestamp on the value written as raw seconds
NormalizeRawSeconds ==
    /\ pc = "format" /\ formatter = "normalize"
    /\ formatted' = normalizeTimestamp(RawSecondsString(totalSeconds))
    /\ pc' = "formatted"
    /\ UNCHANGED <<abortVars, totalSeconds, formatter, parsedBack, rendered, idx,
                   parseVars, normVars, jsonVars, groupVars>>

\* The formatted string read by one of the parsers
ParseFormatted ==
    /\ pc = "formatted"
    /\ \E p \in Parsers :
          /\ parser' = p
          /\ parsedBack' = CASE p = "sample"  -> timestampToSeconds(formatted)
                             [] p = "service" -> timestampToSecondsService(formatted)
                             [] p = "export"  -> parseTimestampToSeconds(formatted)
    /\ pc' = "parsed"
    /\ UNCHANGED <<abortVars, totalSeconds, formatter, formatted, rendered, idx, ts,
                   seconds, normVars, jsonVars, groupVars>>

\* exportAsLRC on a segment whose startTime is the formatted string: the
\* tag of its line
TagLRC ==
    /\ pc = "formatted"
    /\ rendered' = formatSecondsToLRC(parseTimestampToSeconds(formatted))
    /\ pc' = "tagged"
    /\ UNCHANGED <<abortVars, totalSeconds, formatter, formatted, parsedBack, idx,
                   parseVars, normVars, jsonVars, groupVars>>

\* exportAsTTML on a segment whose startTime (or endTime) is the formatted
\* string: the begin (or end) attribute
AttrTTML ==
    /\ pc = "formatted"
    /\ rendered' = formatTimestampForTTML(formatted)
    /\ pc' = "attribute"
    /\ UNCHANGED <<abortVars, totalSeconds, formatter, formatted, parsedBack, idx,
                   parseVars, normVars, jsonVars, groupVars>>

\* normalizeTimestamp on a value written as raw seconds of four decimals
NormalizeFine ==
    /\ pc = "format" /\ formatter = "fine"
    /\ formatted' = normalizeTimestamp(FineSecondsString(totalSeconds))
    /\ pc' = "normalized"
    /\ UNCHANGED <<abortVars, totalSeconds, formatter, parsedBack, rendered, idx,
                   parseVars, normVars, jsonVars, groupVars>>

\* normalizeTimestamp on a string normalizeTimestamp returned
Renormalize ==
    /\ \/ pc = "normalized"
       \/ pc = "formatted" /\ formatter \in {"folded", "normalize"}
    /\ rendered' = normalizeTimestamp(formatted)
    /\ pc' = "renormalized"
    /\ UNCHANGED <<abortVars, totalSeconds, formatter, formatted, parsedBack, idx,
                   parseVars, normVars, jsonVars, groupVars>>

NextFmt ==
    \/ FormatFixed
    \/ FormatFoldedTail
    \/ NormalizeRawSeconds
    \/ ParseFormatted
    \/ TagLRC
    \/ AttrTTML
    \/ NormalizeFine
    \/ Renormalize

SpecFmt == InitFmt /\ [][NextFmt]_vars

----------------------------------------------------------------------------
(* The sequence normalizer: enforceMonotonicity, one loop iteration a step. *)

Tolerance == 1000       \* 0.1 s
MinDuration == 500      \* 0.05 s

\* String(seg.text): a missing field reads "undefined", a null one "null"
StringOfText(text) ==
    CASE text.kind = "missing" -> <<"u", "n", "d", "e", "f", "i", "n", "e", "d">>
      [] text.kind = "null"    -> <<"n", "u", "l", "l">>
      [] OTHER                 -> text.chars

\* Mutants of step 1: the clamp left out; the clamp applied to every start
FixBackwardJumpNoClamp(start, lastEnd) == start

FixBackwardJumpAlways(start, lastEnd) == lastEnd

\* Step 1: a start that jumps back behind the last end is clamped to it
FixBackwardJump(start, lastEnd) ==
    IF start < lastEnd - Tolerance THEN lastEnd ELSE start

\* Mutant of step 2: the clamp left out
FixCausalityNoClamp(start, lastStart) == start

\* Step 2: a start never precedes the last start
FixCausality(start, lastStart) ==
    IF start < lastStart THEN lastStart ELSE start

\* Step 3: an end at or before its start gets the minimum window
FixDuration(start, end) ==
    IF end <= start THEN start + MinDuration ELSE end

\* The start and end of one record after the three repairs
RepairedStart(seg, lastStart, lastEnd) ==
    FixCausality(FixBackwardJump(timestampToSeconds(seg.startTime), lastEnd),
                 lastStart)

RepairedEnd(seg, lastStart, lastEnd) ==
    FixDuration(RepairedStart(seg, lastStart, lastEnd),
                timestampToSeconds(seg.endTime))

\* The segment pushed for one record
Emitted(seg, lastStart, lastEnd) ==
    [startTime |-> secondsToTimestamp(RepairedStart(seg, lastStart, lastEnd)),
     endTime   |-> secondsToTimestamp(RepairedEnd(seg, lastStart, lastEnd)),
     text      |-> Trim(StringOfText(seg.text))]

\* Timestamp tokens of the raw records: an unparseable one (0 s), 5 s,
\* 4.95 s (within the tolerance of 5 s) and 4.9504 s (less than a
\* millisecond after 4.95 s)
TokenJunk == <<"x">>
Token5 == <<"0", "0", ":", "0", "0", ":", "0", "5">>
Token495 == <<"4", ".", "9", "5">>
Token49504 == <<"4", ".", "9", "5", "0", "4">>

StartTokens == {TokenJunk, Token5, Token495}
EndTokens == {TokenJunk, Token5, Token49504}

TextA == [kind |-> "string", chars |-> <<" ", "a">>]

RawRecords ==
    {[startTime |-> a, endTime |-> b, text |-> TextA] :
        a \in StartTokens, b \in EndTokens}
    \cup {[startTime |-> TokenJunk, endTime |-> TokenJunk,
           text |-> [kind |-> k, chars |-> <<>>]] : k \in {"missing", "null"}}

SeqsUpTo(S, n) == UNION {[1..k -> S] : k \in 0..n}

\* The list is read one record at a time: rawSegments holds the records
\* read so far, idx counts them; which record comes next, and whether one
\* does, is the caller's choice.
Init ==
    /\ pc = "enter"
    /\ rawSegments = <<>>
    /\ idx = 0
    /\ lastStartTime = -TicksPerSecond
    /\ lastEndTime = 0
    /\ processed = <<>>
    /\ granularity = "none"
    /\ ParseIdle /\ FmtIdle /\ JsonIdle /\ GroupIdle /\ AbortIdle

\* if (!segments || segments.length === 0) return [];
NormReturnEmpty ==
    /\ pc = "enter"
    /\ pc' = "done"
    /\ UNCHANGED <<abortVars, idx, parseVars, fmtVars, normVars, jsonVars, groupVars>>

\* A non-empty list: the loop is entered with its first record
NormEnterLoop ==
    /\ pc = "enter"
    /\ pc' = "loop"
    /\ UNCHANGED <<abortVars, idx, parseVars, fmtVars, normVars, jsonVars, groupVars>>

\* for (const seg of segments) { ... }
NormIterate ==
    /\ pc = "loop" /\ idx < MaxRaw
    /\ \E seg \in RawRecords :
          /\ rawSegments' = Append(rawSegments, seg)
          /\ lastStartTime' = RepairedStart(seg, lastStartTime, lastEndTime)
          /\ lastEndTime' = RepairedEnd(seg, lastStartTime, lastEndTime)
          /\ processed' = Append(processed,
                                 Emitted(seg, lastStartTime, lastEndTime))
    /\ idx' = idx + 1
    /\ UNCHANGED <<abortVars, pc, granularity, parseVars, fmtVars, jsonVars, groupVars>>

\* return processed;  (the list, which had at least one record, is exhausted)
NormReturn ==
    /\ pc = "loop" /\ idx >= 1
    /\ pc' = "done"
    /\ UNCHANGED <<abortVars, idx, parseVars, fmtVars, normVars, jsonVars, groupVars>>

Next ==
    \/ NormReturnEmpty
    \/ NormEnterLoop
    \/ NormIterate
    \/ NormReturn

Spec == Init /\ [][Next]_vars

----------------------------------------------------------------------------
(* The JSON repairer: tryRepairJson, one strategy a step.                   *)
(*                                                                         *)
(* The raw text is a sequence of tokens: the brackets and the comma, the   *)
(* keys "seg:" ("segments":) and "oth:" (any other key), the scalars "str" *)
(* (a non-empty string) and "null", and whole records:                     *)
(*   "REC"  {"startTime":"..","endTime":"..","text":".."}                  *)
(*   "TREC" {"text":"..","startTime":"..","endTime":".."}                  *)
(*   "RECT" a REC cut right after the closing quote of its text            *)
(*   "PART" a record cut inside a field                                    *)
(***************************************************************************)

RecordTokens == {"REC", "TREC"}

NoSeg == [present |-> FALSE, k |-> "none", items |-> <<>>]
Fail == [ok |-> FALSE, next |-> 0, k |-> "none", items |-> <<>>, seg |-> NoSeg]
Value(kind, nxt, its, sg) ==
    [ok |-> TRUE, next |-> nxt, k |-> kind, items |-> its, seg |-> sg]

\* JSON.parse by recursive descent: the value starting at position p.  Of a
\* value are kept its kind, of an array the kinds of its items, of an object
\* its segments member.
RECURSIVE JValue(_, _), JItems(_, _, _), JMembers(_, _, _)
JValue(t, p) ==
    IF p > Len(t) THEN Fail
    ELSE CASE t[p] \in RecordTokens -> Value(t[p], p + 1, <<>>, NoSeg)
           [] t[p] \in {"str", "null"} -> Value(t[p], p + 1, <<>>, NoSeg)
           [] t[p] = "[" ->
                IF p + 1 <= Len(t) /\ t[p + 1] = "]"
                THEN Value("arr", p + 2, <<>>, NoSeg)
                ELSE JItems(t, p + 1, <<>>)
           [] t[p] = "{" ->
                IF p + 1 <= Len(t) /\ t[p + 1] = "}"
                THEN Value("obj", p + 2, <<>>, NoSeg)
                ELSE JMembers(t, p + 1, NoSeg)
           [] OTHER -> Fail

JItems(t, p, acc) ==
    LET v == JValue(t, p)
    IN  IF ~v.ok \/ v.next > Len(t) THEN Fail
        ELSE IF t[v.next] = "]"
             THEN Value("arr", v.next + 1, Append(acc, v.k), NoSeg)
        ELSE IF t[v.next] = ","
             THEN JItems(t, v.next + 1, Append(acc, v.k))
        ELSE Fail

JMembers(t, p, sg) ==
    IF p > Len(t) \/ t[p] \notin {"seg:", "oth:"} THEN Fail
    ELSE LET v  == JValue(t, p + 1)
             s2 == IF t[p] = "seg:"
                   THEN [present |-> TRUE, k |-> v.k, items |-> v.items]
                   ELSE sg
         IN  IF ~v.ok \/ v.next > Len(t) THEN Fail
             ELSE IF t[v.next] = "}"
                  THEN Value("obj", v.next + 1, <<>>, s2)
             ELSE IF t[v.next] = ","
                  THEN JMembers(t, v.next + 1, s2)
             ELSE Fail

\* JSON.parse(text): the whole text is one value, or a SyntaxError
JsonParse(t) ==
    LET v == JValue(t, 1)
    IN  IF v.ok /\ v.next = Len(t) + 1 THEN v ELSE Fail

\* parsed.segments is truthy (reading it off null throws, which the
\* surrounding try catches)
SegmentsTruthy(v) ==
    v.ok /\ v.k # "null" /\ v.seg.present /\ v.seg.k # "null"

\* parsed.segments && Array.isArray(parsed.segments)
SegmentsIsArray(v) == SegmentsTruthy(v) /\ v.seg.k = "arr"

NoResult == [via |-> "none", segK |-> "none", records |-> <<>>]

\* Strategy 1: what the direct parse returns, NoResult if it returns nothing
DirectResult(t, var) ==
    LET v == JsonParse(t)
    IN  IF SegmentsIsArray(v)
        THEN [via |-> "direct", segK |-> "arr", records |-> v.seg.items]
        ELSE IF var = "service" /\ v.ok /\ v.k = "arr"
        THEN [via |-> "direct", segK |-> "arr", records |-> v.items]
        ELSE NoResult

\* trimmed.lastIndexOf('}'), 0 for none
LastObjectEnd(t) ==
    LET ends == {i \in 1..Len(t) : t[i] \in RecordTokens \cup {"}"}}
    IN  IF ends = {} THEN 0 ELSE CHOOSE i \in ends : \A j \in ends : j <= i

\* Mutant of TruncationCandidates: the text closed with a brace only
TruncationCandidatesBraceOnly(t, var) == <<t \o <<"}">>>>

\* The texts truncation repair parses, in the order it tries them
TruncationCandidates(t, var) ==
    LET cut == SubSeq(t, 1, LastObjectEnd(t)) \o <<"]", "}">>
    IN  IF var = "service"
        THEN <<t \o <<"]", "}">>, t \o <<"}">>, t \o <<"]", "}">>, cut>>
        ELSE <<cut>>

\* What a repaired text is accepted on
TruncationAccepts(v, var) ==
    IF var = "service" THEN SegmentsTruthy(v) ELSE SegmentsIsArray(v)

\* Strategy 2: the first candidate that parses and is accepted
TruncationResult(t, var) ==
    LET cands == TruncationCandidates(t, var)
        good  == {i \in 1..Len(cands) :
                     TruncationAccepts(JsonParse(cands[i]), var)}
    IN  IF LastObjectEnd(t) = 0 \/ good = {} THEN NoResult
        ELSE LET i == CHOOSE g \in good : \A h \in good : g <= h
                 v == JsonParse(cands[i])
             IN  [via |-> "truncation", segK |-> v.seg.k,
                  records |-> v.seg.items]

\* The records the standard pattern matches: start, end, text in this order
StandardMatches(t) == SelectSeq(t, LAMBDA x : x \in {"REC", "RECT"})

\* The records the text-first pattern matches
TextFirstMatches(t) == SelectSeq(t, LAMBDA x : x = "TREC")

\* Mutant of PatternMatches: the text-first pattern never tried
PatternMatchesStandardOnly(t, var) == StandardMatches(t)

\* Strategy 3: the records the patterns scrape off the text
PatternMatches(t, var) ==
    IF var = "service" /\ StandardMatches(t) = <<>>
    THEN TextFirstMatches(t)
    ELSE StandardMatches(t)

\* Well-formed responses, and what is left of them when they are cut
MaxRecs == 2

RecordLists == SeqsUpTo(RecordTokens, MaxRecs)

RECURSIVE Joined(_)
Joined(items) ==
    IF Len(items) <= 1 THEN items
    ELSE <<Head(items), ",">> \o Joined(Tail(items))

ArrayOf(items) == <<"[">> \o Joined(items) \o <<"]">>

Docs ==
    {<<"{", "seg:">> \o ArrayOf(r) \o <<"}">> : r \in RecordLists}
    \cup {ArrayOf(r) : r \in RecordLists}
    \cup {<<"{", "oth:">> \o ArrayOf(r) \o <<"}">> : r \in RecordLists}
    \cup {<<"{", "oth:", "str", ",", "seg:">> \o ArrayOf(r) \o <<"}">> :
             r \in RecordLists}
    \cup {<<"{", "seg:", x, "}">> : x \in {"str", "null", "REC"}}
    \cup {<<"{", "seg:", "{", "oth:", "str", "}", "}">>,
          <<"str">>, <<"null">>, <<"REC">>}

\* A response whole, or cut after k tokens, the cut possibly inside a record
Cuts(d) ==
    {d} \cup {SubSeq(d, 1, k) \o tail :
                 k \in 0..(Len(d) - 1),
                 tail \in {<<>>, <<"RECT">>, <<"PART">>}}

RawTexts == UNION {Cuts(d) : d \in Docs}

InitJson ==
    /\ pc = "direct"
    /\ jsonString \in RawTexts
    /\ variant \in {"service", "sample"}
    /\ calls = [direct |-> 0, truncation |-> 0, pattern |-> 0]
    /\ result = NoResult
    /\ idx = 0
    /\ ParseIdle /\ FmtIdle /\ NormIdle /\ GroupIdle /\ AbortIdle

\* Mutant of DirectParse: the return after a successful parse left out
DirectParseFallsThrough ==
    /\ pc = "direct"
    /\ calls' = [calls EXCEPT !.direct = @ + 1]
    /\ result' = DirectResult(jsonString, variant)
    /\ pc' = "truncation"
    /\ UNCHANGED <<abortVars, jsonString, variant, idx, parseVars, fmtVars, normVars,
                   groupVars>>

\* 1. try { JSON.parse(trimmed) ... return } catch { continue }
DirectParse ==
    /\ pc = "direct"
    /\ calls' = [calls EXCEPT !.direct = @ + 1]
    /\ result' = DirectResult(jsonString, variant)
    /\ pc' = IF result'.via = "direct" THEN "returned" ELSE "truncation"
    /\ UNCHANGED <<abortVars, jsonString, variant, idx, parseVars, fmtVars, normVars,
                   groupVars>>

\* 2. if (lastObjectEnd !== -1) { close the text, parse again, return }
TruncationRepair ==
    /\ pc = "truncation"
    /\ calls' = IF LastObjectEnd(jsonString) # 0
                THEN [calls EXCEPT !.truncation = @ + 1] ELSE calls
    /\ LET r == TruncationResult(jsonString, variant)
       IN  IF r.via = "truncation"
           THEN result' = r /\ pc' = "returned"
           ELSE result' = result /\ pc' = "pattern"
    /\ UNCHANGED <<abortVars, jsonString, variant, idx, parseVars, fmtVars, normVars,
                   groupVars>>

\* 3. scrape the records; return them, or throw when there is none
PatternExtraction ==
    /\ pc = "pattern"
    /\ calls' = [calls EXCEPT !.pattern = @ + 1]
    /\ LET m == PatternMatches(jsonString, variant)
       IN  IF Len(m) > 0
           THEN /\ result' = [via |-> "pattern", segK |-> "arr", records |-> m]
                /\ pc' = "returned"
           ELSE /\ result' = result
                /\ pc' = "raised"
    /\ UNCHANGED <<abortVars, jsonString, variant, idx, parseVars, fmtVars, normVars,
                   groupVars>>

NextJson ==
    \/ DirectParse
    \/ TruncationRepair
    \/ PatternExtraction

SpecJson == InitJson /\ [][NextJson]_vars

----------------------------------------------------------------------------
(* The caption grouper: the grouping loop of exportAsVTT and exportAsTTML,  *)
(* one forEach callback a step, then the flush of the open group.          *)

PauseGap == 8000           \* 0.8 s
ModeratePauseGap == 3000   \* 0.3 s
LongChars == 45

\* /[.!?。！？]$/ and /[,，]$/ : the ideographic full stop is written
\* "ideo.", the full-width marks "fw!", "fw?" and "fw,"
SentenceEndChars == {".", "!", "?", "ideo.", "fw!", "fw?"}
CommaChars == {",", "fw,"}

EndsIn(s, class) == s # <<>> /\ s[Len(s)] \in class

\* seg.translatedText || ''
TranslatedOrEmpty(seg) ==
    IF seg.hasTranslated THEN seg.translatedText ELSE <<>>

\* The text an exporter prints: type === 'translated' ?
\* (s.translatedText || '') : s.text
SelectedText(seg, ty) ==
    IF ty = "translated" THEN TranslatedOrEmpty(seg) ELSE seg.text

\* The text the grouping tests read off the previous member:
\* type === 'translated' ? (prev.translatedText || prev.text) : prev.text
PrevText(prev, ty) ==
    IF ty = "translated"
    THEN IF prev.hasTranslated /\ prev.translatedText # <<>>
         THEN prev.translatedText ELSE prev.text
    ELSE prev.text

\* currentGroup.reduce((acc, seg) => acc + length of the selected text, 0)
RECURSIVE CurrentChars(_, _)
CurrentChars(group, ty) ==
    IF group = <<>> THEN 0
    ELSE Len(SelectedText(Head(group), ty)) + CurrentChars(Tail(group), ty)

\* exportAsVTT: whether s closes the open group
StartsNewGroupVTT(group, s, ty) ==
    LET prev      == group[Len(group)]
        prevEnd   == parseTimestampToSeconds(prev.endTime)
        currStart == parseTimestampToSeconds(s.startTime)
        prevText  == PrevText(prev, ty)
        isSentenceEnd   == EndsIn(Trim(prevText), SentenceEndChars)
        isPause         == (currStart - prevEnd) > PauseGap
        isLong          == CurrentChars(group, ty) > LongChars
        isModeratePause == (currStart - prevEnd) > ModeratePauseGap
        hasComma        == EndsIn(Trim(prevText), CommaChars)
    IN  isSentenceEnd \/ isPause \/ (isLong /\ (isModeratePause \/ hasComma))

\* exportAsTTML: whether s closes the open group
StartsNewGroupTTML(group, s, ty) ==
    LET prev      == group[Len(group)]
        prevEnd   == parseTimestampToSeconds(prev.endTime)
        currStart == parseTimestampToSeconds(s.startTime)
        prevText  == PrevText(prev, ty)
        isSentenceEnd   == EndsIn(Trim(prevText), SentenceEndChars)
        isPause         == (currStart - prevEnd) > PauseGap
        isLong          == CurrentChars(group, ty) > LongChars
        isModeratePause == (currStart - prevEnd) > ModeratePauseGap
        hasComma        == EndsIn(Trim(prevText), CommaChars)
    IN  isSentenceEnd \/ isPause \/ (isLong /\ (isModeratePause \/ hasComma))

StartsNewGroup(group, s, ty, exp) ==
    IF exp = "vtt" THEN StartsNewGroupVTT(group, s, ty)
    ELSE StartsNewGroupTTML(group, s, ty)

\* Mutant of Flushed: the open group dropped at the end of the input
FlushedNothing(gs, group) == gs

\* if (currentGroup.length > 0) groups.push(currentGroup);
Flushed(gs, group) == IF Len(group) > 0 THEN Append(gs, group) ELSE gs

\* The segments of the input lists: texts that are short, end a sentence,
\* end in a comma (and a space) or are more than 45 characters long, with
\* or without a translation, at times 0 s, 1.2 s and 2.5 s
Repeat(c, n) == [i \in 1..n |-> c]

TextShort    == <<"H", "i">>
TextSentence == <<"H", "i", ".">>
TextComma    == <<"H", "i", ",", " ">>
TextLong     == Repeat("a", LongChars + 1)
TransShort    == <<"Y", "o">>
TransSentence == <<"Y", "o", "ideo.">>

Seg(start, end, text, has, trans) ==
    [startTime |-> FormatFolded(start), endTime |-> FormatFolded(end),
     text |-> text, hasTranslated |-> has, translatedText |-> trans]

SegmentPool ==
    { Seg(0, 10000, TextShort, FALSE, <<>>),
      Seg(12000, 20000, TextShort, TRUE, TransSentence),
      Seg(12000, 20000, TextSentence, FALSE, <<>>),
      Seg(0, 10000, TextComma, TRUE, TransShort),
      Seg(0, 10000, TextLong, TRUE, TextLong),
      Seg(12000, 20000, TextLong, FALSE, <<>>),
      Seg(25000, 30000, TextShort, TRUE, TransShort),
      Seg(25000, 30000, TextComma, FALSE, <<>>) }

\* The list of the scenario: Hello from 5 s to 7 s, World from 7.2 s to 9 s
SegHello ==
    [startTime |-> <<"5">>, endTime |-> <<"7">>,
     text |-> <<"H", "e", "l", "l", "o">>,
     hasTranslated |-> FALSE, translatedText |-> <<>>]
SegWorld ==
    [startTime |-> <<"7", ".", "2">>, endTime |-> <<"9">>,
     text |-> <<"W", "o", "r", "l", "d">>,
     hasTranslated |-> FALSE, translatedText |-> <<>>]
HelloWorld == <<SegHello, SegWorld>>

\* A list of single words, one a second from 1 s on, the fifth of which
\* ends a sentence; each has a translation
LongListLen == 11

WordSeg(k) ==
    [startTime |-> NumToString(k), endTime |-> NumToString(k + 1),
     text |-> IF k = 5 THEN <<"w", ".">> ELSE <<"w">>,
     hasTranslated |-> TRUE, translatedText |-> <<"t">>]

LongList == [k \in 1..LongListLen |-> WordSeg(k)]

IsLongListPrefix(segs) ==
    /\ Len(segs) >= 1 /\ Len(segs) <= LongListLen
    /\ segs = SubSeq(LongList, 1, Len(segs))

\* Texts that meet at a boundary: CJK and other characters, a trailing
\* space or tab, a leading space, the characters escapeXml replaces and a
\* text that reads like an entity; the segments that carry them follow
\* each other without a pause and have a CJK translation
SpacingListLen == 2

SpacingTexts ==
    { <<"han">>, <<"a">>, <<"a", " ">>, <<" ", "kana">>, <<"a", "\t">>,
      <<"<", "'", "&", "\"", ">">>, <<"&", "l", "t", ";">> }

SpacingSegs ==
    { [startTime |-> <<"1">>, endTime |-> <<"1">>, text |-> t,
       hasTranslated |-> TRUE, translatedText |-> <<"hangul">>] :
      t \in SpacingTexts }

\* The segments that may follow the ones read so far: the input is a list
\* of up to MaxSegs segments of SegmentPool, the list HelloWorld, a prefix
\* of LongList or a list of up to SpacingListLen segments of SpacingSegs
NextSegments(segs) ==
    IF segs = <<>> THEN SegmentPool \cup {SegHello, WordSeg(1)} \cup SpacingSegs
    ELSE IF segs[1] \in SpacingSegs
    THEN IF Len(segs) < SpacingListLen THEN SpacingSegs ELSE {}
    ELSE IF segs = <<SegHello>> THEN {SegWorld}
    ELSE IF segs = HelloWorld THEN {}
    ELSE IF IsLongListPrefix(segs)
    THEN IF Len(segs) < LongListLen THEN {WordSeg(Len(segs) + 1)} ELSE {}
    ELSE IF Len(segs) < MaxSegs THEN SegmentPool ELSE {}

Exporters == {"vtt", "ttml", "srt", "txt"}
GroupingExporters == {"vtt", "ttml"}

\* The list is read one segment at a time: segments holds the segments read
\* so far, idx counts them.
InitGroup ==
    /\ segments = <<>>
    /\ idx = 0
    /\ type \in {"original", "translated"}
    /\ exporter \in Exporters
    /\ pc = IF exporter \in GroupingExporters THEN "group" ELSE "map"
    /\ currentGroup = <<>>
    /\ groups = <<>>
    /\ output = <<>>
    /\ ParseIdle /\ FmtIdle /\ NormIdle /\ JsonIdle /\ AbortIdle

\* segments.forEach((s) => { ... }) : the first segment opens a group, a
\* later one closes the open group or joins it
GroupSegment ==
    /\ pc = "group"
    /\ \E s \in NextSegments(segments) :
          /\ segments' = Append(segments, s)
          /\ IF Len(currentGroup) = 0
             THEN /\ currentGroup' = <<s>>
                  /\ groups' = groups
             ELSE IF StartsNewGroup(currentGroup, s, type, exporter)
             THEN /\ groups' = Append(groups, currentGroup)
                  /\ currentGroup' = <<s>>
             ELSE /\ currentGroup' = Append(currentGroup, s)
                  /\ groups' = groups
    /\ idx' = idx + 1
    /\ UNCHANGED <<abortVars, pc, type, exporter, output, parseVars, fmtVars, normVars,
                   jsonVars>>

\* The end of the input: the open group is pushed
FlushGroup ==
    /\ pc = "group"
    /\ groups' = Flushed(groups, currentGroup)
    /\ currentGroup' = currentGroup
    /\ pc' = "grouped"
    /\ UNCHANGED <<abortVars, segments, idx, type, exporter, output, parseVars, fmtVars,
                   normVars, jsonVars>>

\* formatSecondsToSRT: HH:MM:SS,mmm from the rounded milliseconds
formatSecondsToSRT(t) ==
    LET roundedMs == RoundToMs(t)
        h  == roundedMs \div 3600000
        m  == (roundedMs % 3600000) \div 60000
        s  == (roundedMs % 60000) \div 1000
        ms == roundedMs % 1000
    IN  PadStart(NumToString(h), 2) \o <<":">> \o PadStart(NumToString(m), 2)
        \o <<":">> \o PadStart(NumToString(s), 2) \o <<",">>
        \o PadStart(NumToString(ms), 3)

\* Mutant of formatSecondsToVTT: the hours field left out
formatSecondsToVTTShort(t) ==
    LET roundedMs == RoundToMs(t)
        m  == roundedMs \div 60000
        s  == (roundedMs % 60000) \div 1000
        ms == roundedMs % 1000
    IN  PadStart(NumToString(m), 2) \o <<":">> \o PadStart(NumToString(s), 2)
        \o <<".">> \o PadStart(NumToString(ms), 3)

\* formatSecondsToVTT: HH:MM:SS.mmm from the rounded milliseconds
formatSecondsToVTT(t) ==
    LET roundedMs == RoundToMs(t)
        h  == roundedMs \div 3600000
        m  == (roundedMs % 3600000) \div 60000
        s  == (roundedMs % 60000) \div 1000
        ms == roundedMs % 1000
    IN  PadStart(NumToString(h), 2) \o <<":">> \o PadStart(NumToString(m), 2)
        \o <<":">> \o PadStart(NumToString(s), 2) \o <<".">>
        \o PadStart(NumToString(ms), 3)

\* isCJKChar: /[\u4e00-\u9fa5\u3040-\u30ff\uac00-\ud7af]/ ; the characters
\* of the three ranges are written "han", "kana" and "hangul"
CJKChars == {"han", "kana", "hangul"}
isCJKChar(c) == c \in CJKChars

\* text.slice(-1) and text.trim().charAt(0): the empty string when there is
\* no such character
LastChar(s) == IF s = <<>> THEN "" ELSE s[Len(s)]
FirstChar(s) == IF s = <<>> THEN "" ELSE s[1]

\* segments.length > 10 : "Assume word mode if many segments"
WordModeSegments == 10

\* Mutant of MemberContentVTT: the start tag written for translated text
\* as well
MemberContentVTTAnyKind(group, i, ty, n) ==
    LET text   == SelectedText(group[i], ty)
        isLast == i = Len(group)
        spaced ==
            IF ~isLast /\ LastChar(text) # " "
            THEN LET nextContent == SelectedText(group[i + 1], ty)
                 IN  IF ~isCJKChar(LastChar(text))
                        \/ ~isCJKChar(FirstChar(Trim(nextContent)))
                     THEN text \o <<" ">> ELSE text
            ELSE text
        wordStart ==
            formatSecondsToVTT(parseTimestampToSeconds(group[i].startTime))
    IN  IF n > WordModeSegments
        THEN <<"<">> \o wordStart \o <<">">> \o spaced
        ELSE spaced

\* The text written for member i of a group in exportAsVTT: the selected
\* text, a space after it unless it is the last member, ends in a space or
\* meets a CJK character with a CJK character, and the start tag before it
\* for original text of a long list
MemberContentVTT(group, i, ty, n) ==
    LET text   == SelectedText(group[i], ty)
        isLast == i = Len(group)
        spaced ==
            IF ~isLast /\ LastChar(text) # " "
            THEN LET nextContent == SelectedText(group[i + 1], ty)
                 IN  IF ~isCJKChar(LastChar(text))
                        \/ ~isCJKChar(FirstChar(Trim(nextContent)))
                     THEN text \o <<" ">> ELSE text
            ELSE text
        wordStart ==
            formatSecondsToVTT(parseTimestampToSeconds(group[i].startTime))
    IN  IF ty = "original" /\ n > WordModeSegments
        THEN <<"<">> \o wordStart \o <<">">> \o spaced
        ELSE spaced

RECURSIVE ContentVTT(_, _, _, _)
ContentVTT(group, i, ty, n) ==
    IF i > Len(group) THEN <<>>
    ELSE MemberContentVTT(group, i, ty, n) \o ContentVTT(group, i + 1, ty, n)

\* One cue of exportAsVTT: `${start} --> ${end}\n${content}`
CueVTT(group, ty, n) ==
    [index   |-> 0,
     start   |-> formatSecondsToVTT(parseTimestampToSeconds(group[1].startTime)),
     end     |-> formatSecondsToVTT(
                     parseTimestampToSeconds(group[Len(group)].endTime)),
     content |-> ContentVTT(group, 1, ty, n)]

\* groups.map((group) => ...) of exportAsVTT
BodyVTT(gs, ty, n) == [g \in 1..Len(gs) |-> CueVTT(gs[g], ty, n)]

\* Mutant of CueSRT: the cues numbered from 0
CueSRTFromZero(s, i, ty) ==
    [index   |-> i,
     start   |-> formatSecondsToSRT(parseTimestampToSeconds(s.startTime)),
     end     |-> formatSecondsToSRT(parseTimestampToSeconds(s.endTime)),
     content |-> SelectedText(s, ty)]

\* One cue of exportAsSRT: `${i + 1}\n${start} --> ${end}\n${text}\n`
CueSRT(s, i, ty) ==
    [index   |-> i + 1,
     start   |-> formatSecondsToSRT(parseTimestampToSeconds(s.startTime)),
     end     |-> formatSecondsToSRT(parseTimestampToSeconds(s.endTime)),
     content |-> SelectedText(s, ty)]

\* One paragraph of exportAsTXT
LineTXT(s, ty) ==
    [index |-> 0, start |-> <<>>, end |-> <<>>, content |-> SelectedText(s, ty)]

\* const bodyContent = groups.map(...) ; return `WEBVTT\n\n${bodyContent}`
RenderVTT ==
    /\ pc = "grouped" /\ exporter = "vtt"
    /\ output' = BodyVTT(groups, type, Len(segments))
    /\ pc' = "exported"
    /\ UNCHANGED <<abortVars, segments, idx, type, exporter, currentGroup, groups,
                   parseVars, fmtVars, normVars, jsonVars>>

\* escapeXml: unsafe.replace(/[<>&'"]/g, ...) replaces every one of the five
\* characters, in one pass over the text, by its entity
EntityOf(c) ==
    CASE c = "<"  -> <<"&", "l", "t", ";">>
      [] c = ">"  -> <<"&", "g", "t", ";">>
      [] c = "&"  -> <<"&", "a", "m", "p", ";">>
      [] c = "'"  -> <<"&", "a", "p", "o", "s", ";">>
      [] c = "\"" -> <<"&", "q", "u", "o", "t", ";">>
      [] OTHER    -> <<c>>

\* Mutant of escapeXml: the replacement made in a second pass as well
escapeXmlTwice(unsafe) ==
    LET RECURSIVE Once(_)
        Once(u) == IF u = <<>> THEN <<>> ELSE EntityOf(Head(u)) \o Once(Tail(u))
    IN  Once(Once(unsafe))

RECURSIVE escapeXml(_)
escapeXml(unsafe) ==
    IF unsafe = <<>> THEN <<>>
    ELSE EntityOf(Head(unsafe)) \o escapeXml(Tail(unsafe))

\* The content of the span of member i of a group in exportAsTTML before it
\* is escaped: the selected text, and a space after it unless it is the
\* last member, ends in a space or meets a CJK character with a CJK
\* character
MemberContentTTML(group, i, ty) ==
    LET content == SelectedText(group[i], ty)
        isLast  == i = Len(group)
    IN  IF ~isLast /\ LastChar(content) # " "
        THEN LET nextContent   == SelectedText(group[i + 1], ty)
                 lastChar      == LastChar(content)
                 nextChar      == FirstChar(Trim(nextContent))
                 isBoundaryCJK == isCJKChar(lastChar) /\ isCJKChar(nextChar)
             IN  IF ~isBoundaryCJK THEN content \o <<" ">> ELSE content
        ELSE content

\* `<span begin="${start}" end="${end}">${escapeXml(content)}</span>`
SpanTTML(group, i, ty) ==
    [begin   |-> formatTimestampForTTML(group[i].startTime),
     end     |-> formatTimestampForTTML(group[i].endTime),
     content |-> escapeXml(MemberContentTTML(group, i, ty))]

\* One paragraph of exportAsTTML: nothing for an empty group, else
\* `<p begin="${pStart}" end="${pEnd}">\n${spans}\n</p>`
ParagraphTTML(group, ty) ==
    IF Len(group) = 0
    THEN [begin |-> <<>>, end |-> <<>>, spans |-> <<>>]
    ELSE [begin |-> formatTimestampForTTML(group[1].startTime),
          end   |-> formatTimestampForTTML(group[Len(group)].endTime),
          spans |-> [i \in 1..Len(group) |-> SpanTTML(group, i, ty)]]

\* const bodyContent = groups.map(...) of exportAsTTML, put in the document
RenderTTML ==
    /\ pc = "grouped" /\ exporter = "ttml"
    /\ output' = [g \in 1..Len(groups) |-> ParagraphTTML(groups[g], type)]
    /\ pc' = "exported"
    /\ UNCHANGED <<abortVars, segments, idx, type, exporter, currentGroup, groups,
                   parseVars, fmtVars, normVars, jsonVars>>

\* segments.map((s, i) => ...) of exportAsSRT, one callback a step
MapSRT ==
    /\ pc = "map" /\ exporter = "srt"
    /\ \E s \in NextSegments(segments) :
          /\ segments' = Append(segments, s)
          /\ output' = Append(output, CueSRT(s, idx, type))
    /\ idx' = idx + 1
    /\ UNCHANGED <<abortVars, pc, type, exporter, currentGroup, groups, parseVars,
                   fmtVars, normVars, jsonVars>>

\* segments.map(s => ...) of exportAsTXT, one callback a step
MapTXT ==
    /\ pc = "map" /\ exporter = "txt"
    /\ \E s \in NextSegments(segments) :
          /\ segments' = Append(segments, s)
          /\ output' = Append(output, LineTXT(s, type))
    /\ idx' = idx + 1
    /\ UNCHANGED <<abortVars, pc, type, exporter, currentGroup, groups, parseVars,
                   fmtVars, normVars, jsonVars>>

\* .join(...) : the end of the input of exportAsSRT and exportAsTXT
MapReturn ==
    /\ pc = "map"
    /\ pc' = "exported"
    /\ UNCHANGED <<abortVars, segments, idx, type, exporter, currentGroup, groups,
                   output, parseVars, fmtVars, normVars, jsonVars>>
\* The grouping loop and the flush of exportAsVTT / exportAsTTML run on a
\* whole list: the groups built from segs[i..] on, given the closed groups
\* and the open one
RECURSIVE GroupLoop(_, _, _, _, _, _)
GroupLoop(gs, group, segs, i, ty, exp) ==
    IF i > Len(segs) THEN Flushed(gs, group)
    ELSE IF Len(group) = 0
    THEN GroupLoop(gs, <<segs[i]>>, segs, i + 1, ty, exp)
    ELSE IF StartsNewGroup(group, segs[i], ty, exp)
    THEN GroupLoop(Append(gs, group), <<segs[i]>>, segs, i + 1, ty, exp)
    ELSE GroupLoop(gs, Append(group, segs[i]), segs, i + 1, ty, exp)

GroupsOf(segs, ty, exp) == GroupLoop(<<>>, <<>>, segs, 1, ty, exp)

\* What exportAsVTT, exportAsSRT and exportAsTXT write for a whole list
ExportOf(segs, ty, exp) ==
    CASE exp = "vtt" -> BodyVTT(GroupsOf(segs, ty, exp), ty, Len(segs))
      [] exp = "srt" -> [i \in 1..Len(segs) |-> CueSRT(segs[i], i - 1, ty)]
      [] exp = "txt" -> [i \in 1..Len(segs) |-> LineTXT(segs[i], ty)]
      [] OTHER       -> <<>>

NextGroup ==
    \/ GroupSegment
    \/ FlushGroup
    \/ RenderVTT
    \/ RenderTTML
    \/ MapSRT
    \/ MapTXT
    \/ MapReturn

SpecGroup == InitGroup /\ [][NextGroup]_vars

----------------------------------------------------------------------------
(* transcribeAudio after the response has been repaired: the sample        *)
(* (part_001) hands parsed.segments to enforceMonotonicity, the service    *)
(* (geminiService.ts) flattens them in word mode and maps every record     *)
(* through normalizeTimestamp. One record of parsed.segments a step.       *)

Token1 == <<"0", "0", ":", "0", "0", ":", "0", "1">>
Token2 == <<"0", "0", ":", "0", "0", ":", "0", "2">>
Token3 == <<"0", "0", ":", "0", "0", ":", "0", "3">>

TextOnlyA == [kind |-> "string", chars |-> <<"a">>]
TextOnlyB == [kind |-> "string", chars |-> <<"b">>]

NoWords == [kind |-> "missing", items |-> <<>>]

Word(start, end, text) ==
    [startTime |-> start, endTime |-> end, text |-> text, words |-> NoWords]

\* Records of a response: start 5 s with end 3 s, start 1 s with end 2 s,
\* a record that carries its two words, a record without a text, and a
\* record with an empty words array
ResponseRecords ==
    { Word(Token5, Token3, TextOnlyA),
      Word(Token1, Token2, TextOnlyB),
      [startTime |-> Token1, endTime |-> Token3, text |-> TextOnlyA,
       words |-> [kind |-> "array",
                  items |-> << Word(Token2, Token3, TextOnlyA),
                               Word(Token1, Token2, TextOnlyB) >>]],
      Word(Token3, Token5, [kind |-> "missing", chars |-> <<>>]),
      [startTime |-> Token2, endTime |-> Token5, text |-> TextOnlyB,
       words |-> [kind |-> "array", items |-> <<>>]] }

\* s.words ? s.words.map((w) => ({text, startTime, endTime})) : undefined
MappedWords(words) ==
    IF words.kind = "missing" THEN [kind |-> "undefined", items |-> <<>>]
    ELSE [kind |-> "array",
          items |-> [k \in 1..Len(words.items) |->
              [text      |-> StringOfText(words.items[k].text),
               startTime |-> normalizeTimestamp(words.items[k].startTime),
               endTime   |-> normalizeTimestamp(words.items[k].endTime)]]]

\* The segment the service returns for one record of rawSegments
Mapped(s) ==
    [startTime |-> normalizeTimestamp(s.startTime),
     endTime   |-> normalizeTimestamp(s.endTime),
     text      |-> StringOfText(s.text),
     words     |-> MappedWords(s.words)]

\* Mutant of Flattened: the words of a record kept out of the list
FlattenedNever(s, gran) == <<s>>

\* What one record of parsed.segments contributes to rawSegments: its
\* words in word mode when it has a non-empty words array, itself otherwise
Flattened(s, gran) ==
    IF gran = "word" /\ s.words.kind = "array" /\ Len(s.words.items) > 0
    THEN s.words.items ELSE <<s>>

Variants == {"sample", "service"}
Granularities == {"line", "word"}

InitTranscribe ==
    /\ pc = "transcribe"
    /\ variant \in Variants
    /\ granularity \in Granularities
    /\ rawSegments = <<>>
    /\ idx = 0
    /\ lastStartTime = -TicksPerSecond
    /\ lastEndTime = 0
    /\ processed = <<>>
    /\ jsonString = <<>>
    /\ calls = [direct |-> 0, truncation |-> 0, pattern |-> 0]
    /\ result = [via |-> "none", segK |-> "none", records |-> <<>>]
    /\ ParseIdle /\ FmtIdle /\ GroupIdle /\ AbortIdle

\* part_001: return enforceMonotonicity(rawSegments), one iteration of its
\* loop a step
TranscribeSample ==
    /\ pc = "transcribe" /\ variant = "sample" /\ idx < MaxRaw
    /\ \E seg \in ResponseRecords :
          /\ rawSegments' = Append(rawSegments, seg)
          /\ lastStartTime' = RepairedStart(seg, lastStartTime, lastEndTime)
          /\ lastEndTime' = RepairedEnd(seg, lastStartTime, lastEndTime)
          /\ processed' = Append(processed,
                                 Emitted(seg, lastStartTime, lastEndTime))
    /\ idx' = idx + 1
    /\ UNCHANGED <<abortVars, pc, granularity, parseVars, fmtVars, jsonVars, groupVars>>

\* geminiService.ts: the flattening of one record and the map over what it
\* contributes
TranscribeService ==
    /\ pc = "transcribe" /\ variant = "service" /\ idx < MaxRaw
    /\ \E seg \in ResponseRecords :
          /\ rawSegments' = Append(rawSegments, seg)
          /\ LET flat == Flattened(seg, granularity)
             IN  processed' = processed
                     \o [k \in 1..Len(flat) |-> Mapped(flat[k])]
    /\ idx' = idx + 1
    /\ UNCHANGED <<abortVars, pc, granularity, lastStartTime, lastEndTime, parseVars,
                   fmtVars, jsonVars, groupVars>>

\* The list is handed back
TranscribeReturn ==
    /\ pc = "transcribe"
    /\ pc' = "transcribed"
    /\ UNCHANGED <<abortVars, idx, parseVars, fmtVars, normVars, jsonVars, groupVars>>

NextTranscribe ==
    \/ TranscribeSample
    \/ TranscribeService
    \/ TranscribeReturn

SpecTranscribe == InitTranscribe /\ [][NextTranscribe]_vars

----------------------------------------------------------------------------
(* The request of transcribeAudio and its cancellation: the function, the   *)
(* generation request and the abort signal run side by side.  pc is the     *)
(* position of the function; the request settles and the signal fires at    *)
(* any time.                                                                *)

\* new DOMException("Aborted", "AbortError"), made by abortPromise
AbortException ==
    [name |-> "AbortError", message |-> "Aborted", by |-> "abortPromise"]

\* What the request may be rejected with: an error with a message, or one
\* without
RequestFailures ==
    { [name |-> "TypeError", message |-> "Failed to fetch", by |-> "request"],
      [name |-> "Error", message |-> "", by |-> "request"] }

\* What the response text may be: a list of segments, nothing, a text that
\* cannot be repaired, a text whose segments value is not a list
ResponseTexts == {"segments", "empty", "invalid", "nonlist"}

Thrown(msg) == [name |-> "Error", message |-> msg, by |-> "code"]

\* What the lines after the await throw on a response text, NoError when
\* they return the list
ThrownOn(text, var) ==
    CASE text = "empty" ->
            Thrown(IF var = "service" THEN "Empty response"
                   ELSE "Empty response from model")
      [] text = "invalid" ->
            Thrown("Response structure invalid and could not be repaired.")
      [] text = "nonlist" /\ var = "service" ->
            [name |-> "TypeError",
             message |-> "rawSegments.map is not a function", by |-> "code"]
      [] OTHER -> NoError

InitAbort ==
    /\ pc = "call"
    /\ variant \in Variants
    /\ signal \in {"none", "idle", "aborted"}
    /\ generation = Unsent
    /\ abortPromise = "none"
    /\ settled = <<>>
    /\ thrown = NoError
    /\ outcome = NoOutcome
    /\ idx = 0
    /\ jsonString = <<>>
    /\ calls = [direct |-> 0, truncation |-> 0, pattern |-> 0]
    /\ result = [via |-> "none", segK |-> "none", records |-> <<>>]
    /\ ParseIdle /\ FmtIdle /\ NormIdle /\ GroupIdle

\* const abortPromise = new Promise((_, reject) => { if (signal?.aborted)
\* reject(...); signal?.addEventListener("abort", () => reject(...)) })
CreateAbortPromise ==
    /\ pc = "call"
    /\ IF signal = "aborted"
       THEN abortPromise' = "rejected" /\ settled' = Append(settled, "abort")
       ELSE abortPromise' = "pending" /\ settled' = settled
    /\ pc' = "request"
    /\ UNCHANGED <<idx, signal, generation, thrown, outcome, parseVars,
                   fmtVars, normVars, jsonVars, groupVars>>

\* ai.models.generateContent({...}) : the request is sent, and the function
\* awaits Promise.race([request, abortPromise])
SendRequest ==
    /\ pc = "request"
    /\ generation' = [generation EXCEPT !.state = "pending"]
    /\ pc' = "await"
    /\ UNCHANGED <<idx, signal, abortPromise, settled, thrown, outcome,
                   parseVars, fmtVars, normVars, jsonVars, groupVars>>

\* The signal fires: the listener, once added, rejects abortPromise (a
\* settled promise stays as it is)
AbortFires ==
    /\ signal = "idle"
    /\ signal' = "aborted"
    /\ IF abortPromise = "pending"
       THEN abortPromise' = "rejected" /\ settled' = Append(settled, "abort")
       ELSE UNCHANGED <<abortPromise, settled>>
    /\ UNCHANGED <<pc, idx, generation, thrown, outcome, parseVars, fmtVars,
                   normVars, jsonVars, groupVars>>

\* The request is answered
RequestResolves ==
    /\ generation.state = "pending"
    /\ \E text \in ResponseTexts :
          generation' = [generation EXCEPT !.state = "resolved", !.text = text]
    /\ settled' = Append(settled, "generation")
    /\ UNCHANGED <<pc, idx, signal, abortPromise, thrown, outcome, parseVars,
                   fmtVars, normVars, jsonVars, groupVars>>

\* The request fails
RequestRejects ==
    /\ generation.state = "pending"
    /\ \E err \in RequestFailures :
          generation' = [generation EXCEPT !.state = "rejected", !.error = err]
    /\ settled' = Append(settled, "generation")
    /\ UNCHANGED <<pc, idx, signal, abortPromise, thrown, outcome, parseVars,
                   fmtVars, normVars, jsonVars, groupVars>>

\* await Promise.race([...]) : the function goes on with what the promise
\* settled first gives, the response or the error thrown into the catch
\* block
AwaitRace ==
    /\ pc = "await" /\ settled # <<>>
    /\ IF settled[1] = "abort"
       THEN thrown' = AbortException /\ pc' = "catch"
       ELSE IF generation.state = "rejected"
       THEN thrown' = generation.error /\ pc' = "catch"
       ELSE thrown' = thrown /\ pc' = "process"
    /\ UNCHANGED <<idx, signal, generation, abortPromise, settled, outcome,
                   parseVars, fmtVars, normVars, jsonVars, groupVars>>

\* The lines between the await and the catch: the text is cleaned, repaired
\* and mapped, and the list is returned, or one of them throws
ProcessResponse ==
    /\ pc = "process"
    /\ LET err == ThrownOn(generation.text, variant)
       IN  IF err = NoError
           THEN /\ outcome' = [kind |-> "returned", error |-> NoError]
                /\ thrown' = thrown
                /\ pc' = "settled"
           ELSE /\ thrown' = err
                /\ outcome' = outcome
                /\ pc' = "catch"
    /\ UNCHANGED <<idx, signal, generation, abortPromise, settled, parseVars,
                   fmtVars, normVars, jsonVars, groupVars>>

\* Mutant of CatchError: every error wrapped
CatchErrorWrapsAll ==
    /\ pc = "catch"
    /\ outcome' = [kind |-> "rejected",
                   error |-> [name |-> "Error",
                              message |-> IF thrown.message # ""
                                          THEN thrown.message
                                          ELSE "Transcription failed",
                              by |-> "catch"]]
    /\ pc' = "settled"
    /\ UNCHANGED <<idx, signal, generation, abortPromise, settled, thrown,
                   parseVars, fmtVars, normVars, jsonVars, groupVars>>

\* catch (error) { if (error.name === 'AbortError') throw error;
\*                 throw new Error(error.message || "Transcription failed") }
CatchError ==
    /\ pc = "catch"
    /\ outcome' = [kind |-> "rejected",
                   error |-> IF thrown.name = "AbortError" THEN thrown
                             ELSE [name |-> "Error",
                                   message |-> IF thrown.message # ""
                                               THEN thrown.message
                                               ELSE "Transcription failed",
                                   by |-> "catch"]]
    /\ pc' = "settled"
    /\ UNCHANGED <<idx, signal, generation, abortPromise, settled, thrown,
                   parseVars, fmtVars, normVars, jsonVars, groupVars>>

NextAbort ==
    \/ CreateAbortPromise
    \/ SendRequest
    \/ AbortFires
    \/ RequestResolves
    \/ RequestRejects
    \/ AwaitRace
    \/ ProcessResponse
    \/ CatchError

SpecAbort == InitAbort /\ [][NextAbort]_vars

----------------------------------------------------------------------------
(* The normalizer's claims.  The output is read as a consumer reads it: the *)
(* emitted strings, parsed.                                                *)

OutStart(i) == timestampToSeconds(processed[i].startTime)
OutEnd(i)   == timestampToSeconds(processed[i].endTime)
InStart(i)  == timestampToSeconds(rawSegments[i].startTime)
InEnd(i)    == timestampToSeconds(rawSegments[i].endTime)

\* A value in ticks rounded to the formatter's precision, in ticks
AtMsPrecision(t) == RoundToMs(t) * TicksPerMs

\* C1: in the normalizer's output every start is at or before its end, and
\* no start precedes the start before it, whatever the input was.
C1_MonotonicOutput ==
    \A i \in 1..Len(processed) :
        /\ OutStart(i) <= OutEnd(i)
        /\ i > 1 => OutStart(i) >= OutStart(i - 1)

\* A finished run whose input jumped backwards and had a record whose end
\* is not after its start
C1_Witness ==
    /\ pc = "done"
    /\ \E i \in 2..Len(processed) :
          /\ InStart(i) < InStart(i - 1)
          /\ InEnd(i) <= InStart(i)

\* C2 as stated: the emitted end times never decrease along the sequence.
C2_EndTimesNonDecreasing ==
    \A i \in 2..Len(processed) : OutEnd(i) >= OutEnd(i - 1)

\* C2 as amended: an emitted end time falls behind the end before it by at
\* most the tolerance of 0.1 s.
C2_EndTimesWithinTolerance ==
    \A i \in 2..Len(processed) : OutEnd(i) >= OutEnd(i - 1) - Tolerance

\* A finished run in which an end time did fall behind the end before it
C2_Witness ==
    /\ pc = "done"
    /\ \E i \in 2..Len(processed) : OutEnd(i) < OutEnd(i - 1)

\* The step of C3: a record whose parsed start is more than the tolerance
\* before the last end is emitted with the last end as its start.
C3_ClampStep ==
    (idx' = idx + 1
       /\ timestampToSeconds(rawSegments'[idx'].startTime)
            < lastEndTime - Tolerance)
        => /\ lastStartTime' = lastEndTime
           /\ processed'[idx'].startTime = secondsToTimestamp(lastEndTime)

C3_OutputWithinTolerance ==
    \A i \in 2..Len(processed) : OutStart(i) >= OutEnd(i - 1) - Tolerance

\* C3: no emitted start precedes the end emitted before it by more than the
\* tolerance of 0.1 s, and a parsed start below lastEnd - 0.1 is clamped to
\* lastEnd.
C3_StartWithinTolerance ==
    []C3_OutputWithinTolerance /\ [][C3_ClampStep]_vars

\* A finished run in which a start that jumped back was clamped
C3_Witness ==
    /\ pc = "done"
    /\ \E i \in 2..Len(processed) :
          /\ InStart(i) < OutEnd(i - 1) - Tolerance - TicksPerMs
          /\ processed[i].startTime = processed[i - 1].endTime

\* C4 as stated: every emitted segment has an end strictly after its start.
C4_PositiveDuration ==
    \A i \in 1..Len(processed) : OutEnd(i) > OutStart(i)

\* The state C4 fails in: an input end less than a millisecond after its
\* start, kept by step 3 and rounded onto the start by the formatter
C4_Witness ==
    \E i \in 1..Len(processed) :
        /\ InEnd(i) > InStart(i)
        /\ InEnd(i) - InStart(i) < TicksPerMs
        /\ processed[i].startTime = processed[i].endTime

\* An iteration leaves the records pushed before it as they are
C5_PrefixKept ==
    /\ Len(processed') >= Len(processed)
    /\ \A i \in 1..Len(processed) : processed'[i] = processed[i]

C5_EmittedNotBeforeParsed ==
    \A i \in 1..Len(processed) :
        /\ OutStart(i) >= InStart(i)
        /\ OutEnd(i) >= InEnd(i)

C5_EmittedNotBeforeParsedAtMs ==
    \A i \in 1..Len(processed) :
        /\ OutStart(i) >= AtMsPrecision(InStart(i))
        /\ OutEnd(i) >= AtMsPrecision(InEnd(i))

\* C5 as stated: every emitted start and end is at or after the value
\* parsed from the record's own token, and no earlier record changes later.
C5_RepairsMoveForward ==
    []C5_EmittedNotBeforeParsed /\ [][C5_PrefixKept]_vars

\* C5 as amended: every emitted start and end is at or after the value
\* parsed from the record's own token rounded to the millisecond, and no
\* earlier record changes later.
C5_RepairsMoveForwardAtMs ==
    []C5_EmittedNotBeforeParsedAtMs /\ [][C5_PrefixKept]_vars

\* A finished run in which a repair moved a start and an end forward
C5_Witness ==
    /\ pc = "done"
    /\ \E i \in 2..Len(processed) :
          /\ OutStart(i) > AtMsPrecision(InStart(i))
          /\ OutEnd(i) > AtMsPrecision(InEnd(i))

----------------------------------------------------------------------------
(* The parsers' and formatters' claims. *)

HasDigit(s) == \E i \in 1..Len(s) : FullWidthDigit(s[i]) \in Digits

\* C9 as stated: whatever the token, each parser returns a value that is
\* not negative, and 0 for a token with nothing to parse.
C9_ParserTotal ==
    pc = "returned" =>
        /\ seconds >= 0
        /\ ~HasDigit(ts) => seconds = 0

\* The exporters' parser returning a negative number of seconds
C9_Witness ==
    /\ pc = "returned" /\ parser = "export"
    /\ seconds < 0

\* C10: a whole number of milliseconds, formatted by either formatter and
\* parsed again, comes back within a millisecond.
C10_RoundTrip ==
    pc = "parsed" => Abs(parsedBack - totalSeconds) <= TicksPerMs

\* An hour or more, with a millisecond part, through the hour-folding
\* formatter and back
C10_Witness ==
    /\ pc = "parsed" /\ formatter = "folded"
    /\ totalSeconds >= 3600 * TicksPerSecond
    /\ totalSeconds % TicksPerSecond # 0
    /\ parsedBack = totalSeconds

----------------------------------------------------------------------------
(* The repairer's claims. *)

\* C7: the strategies run in the order direct parse, truncation repair,
\* pattern extraction, and none runs after one has returned.
C7_FirstSuccessStops ==
    /\ result.via = "direct" => calls.truncation = 0 /\ calls.pattern = 0
    /\ result.via = "truncation" => calls.pattern = 0
    /\ calls.truncation + calls.pattern > 0 => calls.direct = 1
    /\ calls.pattern > 0 => result.via \notin {"direct", "truncation"}

\* A truncated response returned by truncation repair
C7_Witness ==
    /\ pc = "returned" /\ result.via = "truncation"
    /\ calls = [direct |-> 1, truncation |-> 1, pattern |-> 0]

\* The records the patterns of a variant can match in a text
Matchable(var) ==
    IF var = "service" THEN {"REC", "RECT", "TREC"} ELSE {"REC", "RECT"}

C8_RaisedWithoutRecord ==
    pc = "raised" =>
        /\ calls.direct = 1 /\ calls.pattern = 1
        /\ \A i \in 1..Len(jsonString) : jsonString[i] \notin Matchable(variant)

\* C8 as stated: the repairer raises exactly when no record is recovered,
\* so whatever it returns holds at least one record.
C8_RaisesIffNoRecord ==
    /\ C8_RaisedWithoutRecord
    /\ pc = "returned" => Len(result.records) >= 1

\* C8 as amended: the repairer raises only when no record is recovered,
\* and what pattern extraction returns holds at least one record (what
\* direct parse or truncation repair accept may hold none).
C8_RaisesOnlyWithoutRecord ==
    /\ C8_RaisedWithoutRecord
    /\ (pc = "returned" /\ result.via = "pattern") => Len(result.records) >= 1
    /\ (pc = "returned" /\ Len(result.records) = 0)
           => result.via \in {"direct", "truncation"}

\* Valid JSON with an empty segments array, returned with no record
C8_Witness ==
    /\ pc = "returned" /\ result.via = "direct"
    /\ jsonString = <<"{", "seg:", "[", "]", "}">>
    /\ result.records = <<>>

----------------------------------------------------------------------------
(* The grouper's claims. *)

RECURSIVE Flatten(_)
Flatten(gs) == IF gs = <<>> THEN <<>> ELSE Head(gs) \o Flatten(Tail(gs))

\* C6: every closed group has a member, the closed groups and the open one
\* hold the segments read so far in their order, and after the flush the
\* groups alone do (none for an empty input).
C6_GroupingComplete ==
    /\ \A g \in 1..Len(groups) : Len(groups[g]) > 0
    /\ pc = "group" => Flatten(groups) \o currentGroup = segments
    /\ pc = "grouped" => Flatten(groups) = segments
    /\ (pc = "grouped" /\ segments = <<>>) => groups = <<>>

\* A finished grouping in which a group was closed and a segment joined one
C6_Witness ==
    /\ pc = "grouped"
    /\ Len(groups) >= 2
    /\ \E g \in 1..Len(groups) : Len(groups[g]) >= 2

----------------------------------------------------------------------------
(* The normalizer's claims about malformed records and the scenario. *)

TextMissingOrNull(seg) == seg.text.kind \in {"missing", "null"}

\* C11: every record read is emitted (a malformed record does not abort the
\* batch), and a record whose text is missing or null is emitted with the
\* empty string as its text.
C11_MalformedTextEmptied ==
    /\ Len(processed) = Len(rawSegments)
    /\ \A i \in 1..Len(processed) :
          TextMissingOrNull(rawSegments[i]) => processed[i].text = <<>>

\* A record without a text field emitted with the text "undefined", and a
\* record after it processed all the same
C11_Witness ==
    \E i \in 1..Len(processed) :
        /\ rawSegments[i].text.kind = "missing"
        /\ processed[i].text = <<"u", "n", "d", "e", "f", "i", "n", "e", "d">>
        /\ Len(processed) > i

----------------------------------------------------------------------------
(* The exporters' claims. *)

\* The sizes of the groups, in order
Shape(gs) == [g \in 1..Len(gs) |-> Len(gs[g])]

\* The same list with every original text replaced by t
WithText(segs, t) == [i \in 1..Len(segs) |-> [segs[i] EXCEPT !.text = t]]

OriginalTexts == {TextShort, TextSentence, TextComma, TextLong}

\* C12: with translated text, a list that differs from the one exported only
\* in its original texts gives the same groups and the same output.
C12_TranslatedIgnoresOriginal ==
    (type = "translated" /\ pc \in {"grouped", "exported"}) =>
        \A t \in OriginalTexts :
            /\ exporter \in GroupingExporters =>
                  Shape(GroupsOf(WithText(segments, t), type, exporter))
                      = Shape(groups)
            /\ (pc = "exported" /\ exporter # "ttml") =>
                  ExportOf(WithText(segments, t), type, exporter) = output

\* Translated captions of two segments without a translation, cut in two
\* cues after an original text that ends a sentence, and in one cue when
\* the original text is another
C12_Witness ==
    /\ pc = "exported" /\ exporter = "vtt" /\ type = "translated"
    /\ Len(segments) = 2
    /\ \A i \in 1..2 : ~segments[i].hasTranslated
    /\ segments[1].text = TextSentence
    /\ Len(output) = 2
    /\ Len(ExportOf(WithText(segments, TextShort), type, exporter)) = 1

\* C13 as stated: the numbered-cue exporter writes one cue per group of the
\* web-caption exporter, numbered from 1, from the group's first start to
\* its last end.
C13_SrtCuePerGroup ==
    (pc = "exported" /\ exporter = "srt") =>
        LET gs == GroupsOf(segments, type, "vtt")
        IN  /\ Len(output) = Len(gs)
            /\ \A g \in 1..Len(gs) :
                  /\ g <= Len(output)
                  /\ output[g].index = g
                  /\ output[g].start = formatSecondsToSRT(
                         parseTimestampToSeconds(gs[g][1].startTime))
                  /\ output[g].end = formatSecondsToSRT(
                         parseTimestampToSeconds(gs[g][Len(gs[g])].endTime))

\* C13 as amended: the numbered-cue exporter builds no groups; it writes one
\* cue per segment, numbered from 1 in the order of the list, from the
\* segment's own start to its own end, so it never writes fewer cues than
\* the web-caption exporter.
C13_SrtCuePerSegment ==
    exporter = "srt" =>
        /\ Len(output) = Len(segments)
        /\ groups = <<>> /\ currentGroup = <<>>
        /\ \A i \in 1..Len(output) :
              /\ output[i].index = i
              /\ output[i].start = formatSecondsToSRT(
                     parseTimestampToSeconds(segments[i].startTime))
              /\ output[i].end = formatSecondsToSRT(
                     parseTimestampToSeconds(segments[i].endTime))
              /\ output[i].content = SelectedText(segments[i], type)
        /\ Len(output) >= Len(GroupsOf(segments, type, "vtt"))

\* Two cues written for two segments that the web-caption exporter puts in
\* one group
C13_Witness ==
    /\ pc = "exported" /\ exporter = "srt"
    /\ Len(output) = 2
    /\ Len(GroupsOf(segments, type, "vtt")) = 1

----------------------------------------------------------------------------
(* The claims about the list transcribeAudio hands back. *)

\* C14: in the list handed back, every start is at or before its end and no
\* start precedes the start before it, for both sources and granularities.
C14_ReturnedNormalized ==
    pc = "transcribed" =>
        \A i \in 1..Len(processed) :
            /\ OutStart(i) <= OutEnd(i)
            /\ i > 1 => OutStart(i) >= OutStart(i - 1)

\* The service handing back, in line mode, a segment that starts at 5 s and
\* ends at 3 s
C14_Witness ==
    /\ pc = "transcribed" /\ variant = "service" /\ granularity = "line"
    /\ Len(processed) >= 1
    /\ processed[1].startTime = <<"0", "0", ":", "0", "5", ".", "0", "0", "0">>
    /\ processed[1].endTime = <<"0", "0", ":", "0", "3", ".", "0", "0", "0">>

\* The two records of the scenario handed to enforceMonotonicity
ScenarioInput ==
    /\ variant = "sample" /\ Len(rawSegments) >= 2
    /\ rawSegments[1] = Word(Token5, Token3, TextOnlyA)
    /\ rawSegments[2] = Word(Token1, Token2, TextOnlyB)

\* C15 as stated: (5 s, 3 s, a) then (1 s, 2 s, b) give end_0 > start_0 and
\* start_1 >= end_0, the second start being 5 s.
C15_SecondStartAtFive ==
    ScenarioInput =>
        /\ OutEnd(1) > OutStart(1)
        /\ OutStart(2) >= OutEnd(1)
        /\ OutStart(2) = 5 * TicksPerSecond

\* C15 as amended: the first record is emitted as 5 s to 5.05 s, and the
\* second start is clamped to that end, 5.05 s (its end is 5.1 s).
C15_SecondStartAtFirstEnd ==
    ScenarioInput =>
        /\ OutStart(1) = 5 * TicksPerSecond
        /\ OutEnd(1) = 5 * TicksPerSecond + MinDuration
        /\ OutEnd(1) > OutStart(1)
        /\ OutStart(2) = OutEnd(1)
        /\ OutEnd(2) = OutStart(2) + MinDuration
        /\ processed[2].startTime
               = <<"0", "0", ":", "0", "0", ":", "0", "5", ".", "0", "5", "0">>

\* The scenario's two records processed and handed back
C15_Witness ==
    /\ pc = "transcribed" /\ ScenarioInput
    /\ Len(processed) = 2
    /\ processed[2].text = <<"b">>

----------------------------------------------------------------------------
(* The parsers' claims about full-width tokens and part counts. *)

\* C16: the full-width token 01:30.5 parses to 90.5 s.
C16_FullWidthParsed ==
    (pc = "returned" /\ ts = FullWidthToken /\ parser \in {"sample", "service"})
        => seconds = 90 * TicksPerSecond + 5000

\* The service's parser returning 365 s for the full-width token
C16_Witness ==
    /\ pc = "returned" /\ ts = FullWidthToken /\ parser = "service"
    /\ seconds = 365 * TicksPerSecond

----------------------------------------------------------------------------
(* The repairer's scenario. *)

\* '{"segments":[{"startTime":"00:01.000","endTime":"00:02.000","text":"Hi"}'
\* : the record is the token "REC", which JSON.parse hands back as it is
TruncatedAfterFirstRecord == <<"{", "seg:", "[", "REC">>

\* C17: the response cut after its first complete record is repaired by
\* truncation repair into that one record; pattern extraction is not
\* reached and nothing is raised.
C17_TruncatedAfterRecordRepaired ==
    jsonString = TruncatedAfterFirstRecord =>
        /\ pc \notin {"pattern", "raised"}
        /\ calls.pattern = 0
        /\ pc = "returned" =>
              /\ result.via = "truncation"
              /\ result.segK = "arr"
              /\ result.records = <<"REC">>
              /\ calls = [direct |-> 1, truncation |-> 1, pattern |-> 0]

\* The cut response returned by either variant
C17_Witness ==
    /\ pc = "returned" /\ jsonString = TruncatedAfterFirstRecord
    /\ result.records = <<"REC">>

----------------------------------------------------------------------------
(* The web-caption scenario. *)

HelloWorldExported ==
    /\ pc = "exported" /\ exporter = "vtt" /\ type = "original"
    /\ segments = HelloWorld

\* C18 as stated: Hello (5 s to 7 s) and World (7.2 s to 9 s) are written as
\* one cue with both texts, whose time line is 00:05.000 --> 00:09.000.
C18_OneCueShortTimes ==
    HelloWorldExported =>
        /\ Len(output) = 1
        /\ output[1].content
               = <<"H", "e", "l", "l", "o", " ", "W", "o", "r", "l", "d">>
        /\ output[1].start = <<"0", "0", ":", "0", "5", ".", "0", "0", "0">>
        /\ output[1].end = <<"0", "0", ":", "0", "9", ".", "0", "0", "0">>

\* C18 as amended: one cue with both texts, whose time line is
\* 00:00:05.000 --> 00:00:09.000.
C18_OneCueFullTimes ==
    HelloWorldExported =>
        /\ Len(groups) = 1 /\ groups[1] = HelloWorld
        /\ Len(output) = 1
        /\ output[1].content
               = <<"H", "e", "l", "l", "o", " ", "W", "o", "r", "l", "d">>
        /\ output[1].start
               = <<"0", "0", ":", "0", "0", ":", "0", "5", ".", "0", "0", "0">>
        /\ output[1].end
               = <<"0", "0", ":", "0", "0", ":", "0", "9", ".", "0", "0", "0">>

\* The scenario's list exported in one cue
C18_Witness == HelloWorldExported /\ Len(output) = 1

\* The token as each timestampToSeconds cleans it before counting parts
CleanedToken(t, p) ==
    IF p = "service"
    THEN Keep(ReplaceAll(ReplaceAll(
                  [i \in 1..Len(Trim(t)) |-> FullWidthDigit(Trim(t)[i])],
                  "fw:", ":"), ",", "."), TimeChars)
    ELSE Keep(ReplaceAll(Trim(t), ",", "."), TimeChars)

\* The reference formula, chosen by the number of parts
ReferenceSeconds(clean) ==
    LET parts == Parts(clean)
    IN  CASE Len(parts) = 4 -> parts[1] * 3600 + parts[2] * 60 + parts[3]
                               + (parts[4] \div 1000)
          [] Len(parts) = 3 -> parts[1] * 3600 + parts[2] * 60 + parts[3]
          [] Len(parts) = 2 -> parts[1] * 60 + parts[2]
          [] OTHER          -> OrZero(ParseFloat(clean))

\* C19: for a cleaned token with a colon, both timestampToSeconds return
\* what the reference formula gives for its number of parts.
C19_PartCountFormula ==
    (pc = "returned" /\ parser \in {"sample", "service"}
        /\ Contains(CleanedToken(ts, parser), ":"))
        => seconds = ReferenceSeconds(CleanedToken(ts, parser))

\* The service's parser returning 1 s for the four parts 1:1:1:515
C19_Witness ==
    /\ pc = "returned" /\ parser = "service" /\ ts = FourPartToken
    /\ seconds = TicksPerSecond
    /\ ReferenceSeconds(CleanedToken(ts, parser)) = 36615150

----------------------------------------------------------------------------
(* The grouping rule. *)

\* The rule as stated: s starts a new group when the selected text of the
\* last member ends a sentence, or the gap exceeds 0.8 s, or the group has
\* more than 45 selected characters and the gap exceeds 0.3 s or the
\* selected text of the last member ends in a comma
RuleStartsNewGroup(group, s, ty) ==
    LET prev     == group[Len(group)]
        gap      == parseTimestampToSeconds(s.startTime)
                        - parseTimestampToSeconds(prev.endTime)
        selected == Trim(SelectedText(prev, ty))
    IN  \/ EndsIn(selected, SentenceEndChars)
        \/ gap > PauseGap
        \/ /\ CurrentChars(group, ty) > LongChars
           /\ gap > ModeratePauseGap \/ EndsIn(selected, CommaChars)

\* The groups the rule gives for segs[i..], greedily, with the last open
\* group closed at the end
RECURSIVE RuleLoop(_, _, _, _, _)
RuleLoop(gs, group, segs, i, ty) ==
    IF i > Len(segs) THEN IF group = <<>> THEN gs ELSE Append(gs, group)
    ELSE IF group = <<>>
    THEN RuleLoop(gs, <<segs[i]>>, segs, i + 1, ty)
    ELSE IF RuleStartsNewGroup(group, segs[i], ty)
    THEN RuleLoop(Append(gs, group), <<segs[i]>>, segs, i + 1, ty)
    ELSE RuleLoop(gs, Append(group, segs[i]), segs, i + 1, ty)

RuleGroups(segs, ty) == RuleLoop(<<>>, <<>>, segs, 1, ty)

\* The groups built so far, the open one included
GroupsSoFar == IF pc = "group" THEN Flushed(groups, currentGroup) ELSE groups

\* C20: after every segment read, the groups of either exporter are the
\* groups the rule gives, and both exporters give the same groups.
C20_GroupsByRule ==
    exporter \in GroupingExporters =>
        /\ GroupsSoFar = RuleGroups(segments, type)
        /\ GroupsOf(segments, type, "vtt") = GroupsOf(segments, type, "ttml")

\* Translated timed text of two segments without a translation, cut in two
\* groups where the rule gives one
C20_Witness ==
    /\ pc = "grouped" /\ exporter = "ttml" /\ type = "translated"
    /\ Len(segments) = 2
    /\ Len(groups) = 2
    /\ Len(RuleGroups(segments, type)) = 1

----------------------------------------------------------------------------
(* The flattening claim. *)

\* The records and words the returned list is made of, in order: in word
\* mode the words of a record that has some, the record itself otherwise
RECURSIVE SourceItems(_, _, _)
SourceItems(raws, i, gran) ==
    IF i > Len(raws) THEN <<>>
    ELSE (IF gran = "word" /\ raws[i].words.kind = "array"
             /\ raws[i].words.items # <<>>
          THEN raws[i].words.items ELSE <<raws[i]>>)
         \o SourceItems(raws, i + 1, gran)

\* C21: the service returns one segment per source item, in order, with the
\* item's timestamps normalized and its text; in line mode the source items
\* are the raw records themselves.
C21_FlattenedInOrder ==
    variant = "service" =>
        LET src == SourceItems(rawSegments, 1, granularity)
        IN  /\ Len(processed) = Len(src)
            /\ granularity = "line" => Len(processed) = Len(rawSegments)
            /\ \A i \in 1..Len(src) :
                  /\ i <= Len(processed)
                  /\ processed[i].startTime = normalizeTimestamp(src[i].startTime)
                  /\ processed[i].endTime = normalizeTimestamp(src[i].endTime)
                  /\ processed[i].text = StringOfText(src[i].text)

\* Word mode: a record with two words, then a record with an empty words
\* array, returned as three segments
C21_Witness ==
    /\ pc = "transcribed" /\ variant = "service" /\ granularity = "word"
    /\ Len(rawSegments) = 2
    /\ rawSegments[1].words.kind = "array" /\ Len(rawSegments[1].words.items) = 2
    /\ rawSegments[2].words.kind = "array" /\ rawSegments[2].words.items = <<>>
    /\ Len(processed) = 3
    /\ processed[3].text = <<"b">>

----------------------------------------------------------------------------
(* The claims about the exporters' timestamps. *)

AllDigits(s) == \A i \in 1..Len(s) : s[i] \in Digits

\* [MM:SS.CC] : minutes of two digits or more, seconds of two digits below
\* 60, hundredths of exactly two digits
IsLrcTag(s) ==
    /\ Len(s) >= 10 /\ s[1] = "[" /\ s[Len(s)] = "]"
    /\ LET inner  == SubSeq(s, 2, Len(s) - 1)
           fields == Split(inner, ":")
       IN  /\ Len(fields) = 2
           /\ Len(fields[1]) >= 2 /\ AllDigits(fields[1])
           /\ LET sec == Split(fields[2], ".")
              IN  /\ Len(sec) = 2
                  /\ Len(sec[1]) = 2 /\ AllDigits(sec[1]) /\ IntOf(sec[1]) < 60
                  /\ Len(sec[2]) = 2 /\ AllDigits(sec[2])

\* C22: the tag of a start time that is a whole number of milliseconds has
\* the form [MM:SS.CC].
C22_LrcTagForm == pc = "tagged" => IsLrcTag(rendered)

\* The start time 0.999 s tagged [00:00.100]
C22_Witness ==
    /\ pc = "tagged" /\ totalSeconds = 999 * TicksPerMs
    /\ rendered = <<"[", "0", "0", ":", "0", "0", ".", "1", "0", "0", "]">>

\* HH:MM:SS.mmm : hours of two digits, minutes and seconds of two digits
\* below 60, a fraction of exactly three digits
IsFixedForm(s) ==
    LET fields == Split(s, ":")
    IN  /\ Len(fields) = 3
        /\ Len(fields[1]) = 2 /\ AllDigits(fields[1])
        /\ Len(fields[2]) = 2 /\ AllDigits(fields[2]) /\ IntOf(fields[2]) < 60
        /\ LET sec == Split(fields[3], ".")
           IN  /\ Len(sec) = 2
               /\ Len(sec[1]) = 2 /\ AllDigits(sec[1]) /\ IntOf(sec[1]) < 60
               /\ Len(sec[2]) = 3 /\ AllDigits(sec[2])

\* C23: the attribute written for a timestamp of the core's formatters
\* (the values formatted are below 100 hours) has the form HH:MM:SS.mmm.
C23_TtmlAttributeFixedForm == pc = "attribute" => IsFixedForm(rendered)

\* One hour as the hour-folding formatter writes it, 60:00.000, given the
\* attribute 00:60:00.000
C23_Witness ==
    /\ pc = "attribute" /\ formatter = "folded"
    /\ formatted = <<"6", "0", ":", "0", "0", ".", "0", "0", "0">>
    /\ rendered = <<"0", "0", ":", "6", "0", ":", "0", "0", ".", "0", "0", "0">>

----------------------------------------------------------------------------
(* The web-caption exporter's timecode tags. *)

\* The tag of a member: its own start time between angle brackets
TagOf(member) ==
    <<"<">> \o formatSecondsToVTT(parseTimestampToSeconds(member.startTime))
    \o <<">">>

\* The content of a cue whose members are all tagged, or of which none is:
\* each member's untagged text as the exporter spaces it, after its tag if
\* tagged
RECURSIVE ContentWithTags(_, _, _, _)
ContentWithTags(group, i, ty, tagged) ==
    IF i > Len(group) THEN <<>>
    ELSE (IF tagged THEN TagOf(group[i]) ELSE <<>>)
         \o MemberContentVTT(group, i, ty, 0)
         \o ContentWithTags(group, i + 1, ty, tagged)

\* C24: every member of every cue is tagged with its own start time when
\* the text is original and the list has more than 10 segments, and no
\* member is tagged otherwise.
C24_TaggedIffOriginalAndLong ==
    (pc = "exported" /\ exporter = "vtt") =>
        /\ Len(output) = Len(groups)
        /\ \A g \in 1..Len(groups) :
              g <= Len(output) /\
              output[g].content =
                  ContentWithTags(groups[g], 1, type,
                                  type = "original" /\ Len(segments) > 10)

\* The list of 11 words exported with original text: two cues, the second
\* starting with the tag of the sixth word
C24_Witness ==
    /\ pc = "exported" /\ exporter = "vtt" /\ type = "original"
    /\ segments = LongList
    /\ Len(output) = 2
    /\ SubSeq(output[2].content, 1, 14)
           = <<"<", "0", "0", ":", "0", "0", ":", "0", "6", ".", "0", "0", "0",
               ">">>

----------------------------------------------------------------------------
(* The spacing between the member texts of a group. *)

EndsWithWhitespace(s) == s # <<>> /\ s[Len(s)] \in Whitespace
BeginsWithWhitespace(s) == s # <<>> /\ s[1] \in Whitespace

\* What the rule puts after member i of a group: nothing after the last
\* member, nothing where whitespace already separates the two texts,
\* nothing between two CJK characters, one space otherwise
SeparatorByRule(group, i, ty) ==
    IF i = Len(group) THEN <<>>
    ELSE LET left  == SelectedText(group[i], ty)
             right == SelectedText(group[i + 1], ty)
         IN  IF EndsWithWhitespace(left) \/ BeginsWithWhitespace(right)
             THEN <<>>
             ELSE IF isCJKChar(LastChar(left)) /\ isCJKChar(FirstChar(right))
             THEN <<>>
             ELSE <<" ">>

SpacedByRule(group, i, ty) ==
    SelectedText(group[i], ty) \o SeparatorByRule(group, i, ty)

RECURSIVE ContentByRule(_, _, _, _)
ContentByRule(group, i, ty, tagged) ==
    IF i > Len(group) THEN <<>>
    ELSE (IF tagged THEN TagOf(group[i]) ELSE <<>>)
         \o SpacedByRule(group, i, ty)
         \o ContentByRule(group, i + 1, ty, tagged)

\* C25: what the web-caption and the timed-text-markup exporter write for
\* each member of a group is the member's text followed by one space, or by
\* nothing when the member is the last of its group, when the text ends
\* with whitespace or the next text begins with whitespace, or when the two
\* boundary characters are CJK; the two exporters space every pair alike.
C25_SpacingRule ==
    /\ (pc = "exported" /\ exporter = "vtt") =>
          \A g \in 1..Len(groups) :
              /\ g <= Len(output)
              /\ output[g].content =
                     ContentByRule(groups[g], 1, type,
                         type = "original" /\ Len(segments) > WordModeSegments)
    /\ (pc = "exported" /\ exporter = "ttml") =>
          \A g \in 1..Len(groups) :
              /\ g <= Len(output)
              /\ Len(output[g].spans) = Len(groups[g])
              /\ \A i \in 1..Len(groups[g]) :
                    output[g].spans[i].content =
                        escapeXml(SpacedByRule(groups[g], i, type))
    /\ (pc = "exported" /\ exporter \in GroupingExporters) =>
          \A g \in 1..Len(groups) : \A i \in 1..Len(groups[g]) :
              MemberContentVTT(groups[g], i, type, 0)
                  = MemberContentTTML(groups[g], i, type)

\* The texts "a" and " kana" exported as web captions: a space is put
\* before the space the second text begins with
C25_Witness ==
    /\ pc = "exported" /\ exporter = "vtt" /\ type = "original"
    /\ Len(segments) = 2
    /\ segments[1].text = <<"a">> /\ segments[2].text = <<" ", "kana">>
    /\ Len(output) = 1
    /\ output[1].content = <<"a", " ", " ", "kana">>

----------------------------------------------------------------------------
(* The escaping of the timed-text-markup exporter. *)

Entities ==
    {EntityOf(c) : c \in {"<", ">", "&", "'", "\""}}

IsPrefixOf(p, s) == Len(p) <= Len(s) /\ SubSeq(s, 1, Len(p)) = p

\* The character an entity stands for
CharOfEntity(ent) == CHOOSE c \in {"<", ">", "&", "'", "\""} : EntityOf(c) = ent

\* The text an XML reader gets from a content: every entity replaced by
\* its character, left to right
RECURSIVE UnescapeXml(_)
UnescapeXml(s) ==
    IF s = <<>> THEN <<>>
    ELSE IF \E ent \in Entities : IsPrefixOf(ent, s)
    THEN LET ent == CHOOSE x \in Entities : IsPrefixOf(x, s)
         IN  <<CharOfEntity(ent)>> \o UnescapeXml(Drop(s, Len(ent)))
    ELSE <<Head(s)>> \o UnescapeXml(Tail(s))

\* C26: the content of every span of the timed-text-markup output holds no
\* raw <, >, double quote or apostrophe, each of its ampersands starts one
\* of the five entities, and unescaping it gives the member's spaced text.
C26_SpanContentEscapedOnce ==
    (pc = "exported" /\ exporter = "ttml") =>
        \A g \in 1..Len(output) : \A i \in 1..Len(output[g].spans) :
            LET c == output[g].spans[i].content
            IN  /\ \A k \in 1..Len(c) :
                      /\ c[k] \notin {"<", ">", "\"", "'"}
                      /\ c[k] = "&" =>
                            \E ent \in Entities :
                                IsPrefixOf(ent, Drop(c, k - 1))
                /\ g <= Len(groups) /\ i <= Len(groups[g])
                /\ UnescapeXml(c) = MemberContentTTML(groups[g], i, type)

\* A text of the five characters followed by a text that reads like an
\* entity: the first span holds the five entities and the space, the second
\* the entity text with its ampersand escaped
C26_Witness ==
    /\ pc = "exported" /\ exporter = "ttml" /\ type = "original"
    /\ Len(output) = 1 /\ Len(output[1].spans) = 2
    /\ output[1].spans[1].content =
           <<"&", "l", "t", ";", "&", "a", "p", "o", "s", ";",
             "&", "a", "m", "p", ";", "&", "q", "u", "o", "t", ";",
             "&", "g", "t", ";", " ">>
    /\ output[1].spans[2].content =
           <<"&", "a", "m", "p", ";", "l", "t", ";">>

----------------------------------------------------------------------------
(* The kind of the segments value tryRepairJson returns. *)

\* C27: whenever tryRepairJson of the service returns, by whichever
\* strategy, the segments value of its result is a list.
C27_ReturnedSegmentsIsList ==
    (pc = "returned" /\ variant = "service") => result.segK = "arr"

\* {"segments":{"other":"..."} cut before its last brace: closed with "}",
\* it parses, and its segments value, an object, is returned
C27_Witness ==
    /\ pc = "returned" /\ variant = "service"
    /\ jsonString = <<"{", "seg:", "{", "oth:", "str", "}">>
    /\ result.via = "truncation"
    /\ result.segK = "obj"

----------------------------------------------------------------------------
(* The form of what normalizeTimestamp returns. *)

\* MM:SS.mmm : minutes of two digits or more, seconds of two digits below
\* 60, a fraction of exactly three digits
IsFoldedForm(s) ==
    LET fields == Split(s, ":")
    IN  /\ Len(fields) = 2
        /\ Len(fields[1]) >= 2 /\ AllDigits(fields[1])
        /\ LET sec == Split(fields[2], ".")
           IN  /\ Len(sec) = 2
               /\ Len(sec[1]) = 2 /\ AllDigits(sec[1]) /\ IntOf(sec[1]) < 60
               /\ Len(sec[2]) = 3 /\ AllDigits(sec[2])

\* C28: what normalizeTimestamp returns has the form MM:SS.mmm, and
\* normalizeTimestamp applied to it returns it unchanged.
C28_FoldedFormIdempotent ==
    /\ pc = "normalized" => IsFoldedForm(formatted)
    /\ pc = "renormalized" => IsFoldedForm(formatted) /\ rendered = formatted

\* 59.9996: returned with a fraction of four digits, and as another string
\* when normalized again
C28_Witness ==
    /\ pc = "renormalized" /\ totalSeconds = 599996
    /\ formatted = <<"0", "0", ":", "5", "9", ".", "1", "0", "0", "0">>
    /\ rendered = <<"0", "0", ":", "5", "9", ".", "1", "0", "0">>

----------------------------------------------------------------------------
(* How transcribeAudio settles when it is cancelled or fails. *)

\* The signal fired, or was aborted from the start, before the request
\* settled
AbortedFirst == settled # <<>> /\ settled[1] = "abort"

\* C29 as stated: cancelled before the request settles, transcribeAudio
\* rejects with the AbortError itself and returns no list; any other failure
\* is a generic Error with the message of the error caught.
C29_AbortItselfOthersOriginalMessage ==
    pc = "settled" =>
        /\ AbortedFirst => outcome = [kind |-> "rejected", error |-> AbortException]
        /\ (~AbortedFirst /\ outcome.kind = "rejected") =>
              /\ outcome.error.name = "Error"
              /\ outcome.error.by = "catch"
              /\ outcome.error.message = thrown.message

\* C29: cancelled before the request settles, transcribeAudio rejects with
\* the AbortError itself and returns no list; any other failure is a generic
\* Error with the message of the error caught, or with "Transcription
\* failed" when that message is empty.
C29_AbortItselfOthersMessageOrDefault ==
    pc = "settled" =>
        /\ AbortedFirst => outcome = [kind |-> "rejected", error |-> AbortException]
        /\ (~AbortedFirst /\ outcome.kind = "rejected") =>
              /\ outcome.error.name = "Error"
              /\ outcome.error.by = "catch"
              /\ outcome.error.message =
                     IF thrown.message = "" THEN "Transcription failed"
                     ELSE thrown.message

\* The signal fires while the request is pending, the request is answered
\* with a list of segments afterwards, and the call is rejected with the
\* AbortError
C29_Witness ==
    /\ pc = "settled"
    /\ settled = <<"abort", "generation">>
    /\ generation.state = "resolved" /\ generation.text = "segments"
    /\ outcome = [kind |-> "rejected", error |-> AbortException]

====
